---- MODULE Spec2Model ----
(***************************************************************************)
(* Model of the translation pipeline of commercecraft-utils:               *)
(*   TranslationService  (translation_service.py)                          *)
(*   TranslationEngine   (translation_engine.py)                           *)
(* Strings are sequences of one-character strings.                         *)
(***************************************************************************)
EXTENDS Integers, Sequences, FiniteSets, TLC

\* ------------------------------------------------------------------ bounds
MaxTexts == 3          \* longest list handed to the service
MaxBatchSize == 2      \* largest BATCH_SIZE explored
MaxRetriesArg == 3     \* largest max_retries passed to translate_batch directly
RespLen == 1           \* raw responses enumerated exhaustively up to this length
MaxFailures == 4       \* failed requests the remote may produce in one run
MaxValues == 2         \* longest list handed to translate_values
NRows == 2             \* rows of the table
MaxSaveInterval == 2   \* largest save_interval passed to process_file
MaxChars == 3          \* longest string handed to a helper on its own
MaxCalls == 2          \* validation calls made on one engine
MaxKeys == 2           \* most keys of a JSON object handed to a helper

\* ------------------------------------------------------- program constants
DefaultMaxRetries == 3 \* translate_batch(..., max_retries: int = 3)
RateLimitDelay == 1    \* asyncio.sleep(1) between batches

\* ------------------------------------------------------------ string helpers
NL == "\n"
SP == " "

IsSpace(c) == c \in {SP, NL}

RECURSIVE LStrip(_)
LStrip(s) == IF s # <<>> /\ IsSpace(Head(s)) THEN LStrip(Tail(s)) ELSE s

RECURSIVE RStrip(_)
RStrip(s) ==
    IF s # <<>> /\ IsSpace(s[Len(s)]) THEN RStrip(SubSeq(s, 1, Len(s) - 1)) ELSE s

\* str.strip()
Strip(s) == RStrip(LStrip(s))

\* str.split(sep) for a one-character separator: always at least one piece
RECURSIVE SplitAcc(_, _, _)
SplitAcc(s, sep, cur) ==
    IF s = <<>> THEN <<cur>>
    ELSE IF Head(s) = sep THEN <<cur>> \o SplitAcc(Tail(s), sep, <<>>)
    ELSE SplitAcc(Tail(s), sep, Append(cur, Head(s)))

Split(s, sep) == SplitAcc(s, sep, <<>>)

\* sep.join(parts)
RECURSIVE Join(_, _)
Join(parts, sep) ==
    IF parts = <<>> THEN <<>>
    ELSE IF Len(parts) = 1 THEN parts[1]
    ELSE parts[1] \o <<sep>> \o Join(Tail(parts), sep)

RECURSIVE Pow2(_)
Pow2(n) == IF n <= 0 THEN 1 ELSE 2 * Pow2(n - 1)

SeqRange(q) == {q[k] : k \in 1..Len(q)}

\* all sequences over S of length 0..n
SeqsUpTo(S, n) == UNION {[1..k -> S] : k \in 0..n}

\* Python slice xs[i : i + n] for 0-based i and n >= 1
Slice(xs, i, n) ==
    SubSeq(xs, i + 1, IF i + n < Len(xs) THEN i + n ELSE Len(xs))

\* ------------------------------------------------------------ the service
\* TranslationService._create_user_prompt
_create_user_prompt(texts) == Join(texts, NL)

\* variant: empty lines are dropped
_process_response_NoBlank(response) ==
    LET lines == Split(Strip(response), NL)
    IN  SelectSeq([k \in 1..Len(lines) |-> Strip(lines[k])],
                  LAMBDA line : line # <<>>)

\* TranslationService._process_response
_process_response(response) ==
    LET lines == Split(Strip(response), NL)
    IN  [k \in 1..Len(lines) |-> Strip(lines[k])]

\* ------------------------------------------------------------- the remote
\* What a faithful translator does to one character.
TrChar(c) == CASE c = "a" -> "x" [] c = "b" -> "y" [] OTHER -> c

TrLine(line) == [k \in 1..Len(line) |-> TrChar(line[k])]

\* One translated line for every line of the prompt.
Faithful(prompt) ==
    LET lines == Split(prompt, NL)
    IN  Join([k \in 1..Len(lines) |-> TrLine(lines[k])], NL)

RespChars == {"x", SP, NL}

\* The raw contents the remote model may answer with for a prompt.
RemoteResponses(prompt) ==
    LET lines == Split(prompt, NL)
        good  == Faithful(prompt)
        short == Join([k \in 1..(Len(lines) - 1) |-> TrLine(lines[k])], NL)
    IN  {good, <<SP>> \o good \o <<NL>>, short, good \o <<NL, "x">>}
          \cup SeqsUpTo(RespChars, RespLen)

NoEvent == [ev |-> "none", batch |-> <<>>, kind |-> "none", lines |-> <<>>, d |-> 0]
ReqEvent(b) == [NoEvent EXCEPT !.ev = "request", !.batch = b]
RespEvent(k, ls) == [NoEvent EXCEPT !.ev = "response", !.kind = k, !.lines = ls]
BackoffEvent(n) == [NoEvent EXCEPT !.ev = "backoff", !.d = n]
RateLimitEvent(n) == [NoEvent EXCEPT !.ev = "ratelimit", !.d = n]

NoReturn == [kind |-> "none", val |-> <<>>]
ReturnList(v) == [kind |-> "list", val |-> v]
ReturnNone == [kind |-> "None", val |-> <<>>]
Raise(exc) == [kind |-> exc, val |-> <<>>]
IsRaise(r) == r.kind \in {"Exception", "ValueError", "TypeError", "IndexError"}

\* ------------------------------------------------------------ cell values
\* A cell (or a list entry) is missing, a string, or a number in tenths.
NaN == [t |-> "nan", s |-> <<>>, n |-> 0]
Str(chars) == [t |-> "str", s |-> chars, n |-> 0]
IntVal(k) == [t |-> "int", s |-> <<>>, n |-> 10 * k]
FloatVal(tenths) == [t |-> "float", s |-> <<>>, n |-> tenths]

\* pd.notna / pd.isna on a scalar
notna(v) == v.t # "nan"
isna(v) == v.t = "nan"

DigitChar(d) ==
    CASE d = 0 -> "0" [] d = 1 -> "1" [] d = 2 -> "2" [] d = 3 -> "3"
      [] d = 4 -> "4" [] d = 5 -> "5" [] d = 6 -> "6" [] d = 7 -> "7"
      [] d = 8 -> "8" [] d = 9 -> "9"

\* str(v) of a cell value (numbers below ten)
PyStr(v) ==
    CASE v.t = "str" -> v.s
      [] v.t = "int" -> <<DigitChar(v.n \div 10)>>
      [] v.t = "float" -> <<DigitChar(v.n \div 10), ".", DigitChar(v.n % 10)>>
      [] OTHER -> <<"n", "a", "n">>

\* ----------------------------------------------------------------- tables
\* numpy scalar constructors np.int64(str) and np.float64(str), in tenths
IsDigit(c) == c \in {"0", "1", "2", "3", "4", "5", "6", "7", "8", "9"}
DigitVal(c) ==
    CASE c = "0" -> 0 [] c = "1" -> 1 [] c = "2" -> 2 [] c = "3" -> 3
      [] c = "4" -> 4 [] c = "5" -> 5 [] c = "6" -> 6 [] c = "7" -> 7
      [] c = "8" -> 8 [] c = "9" -> 9

RECURSIVE DigitsVal(_)
DigitsVal(q) ==
    IF q = <<>> THEN 0 ELSE 10 * DigitsVal(SubSeq(q, 1, Len(q) - 1)) + DigitVal(q[Len(q)])

ParseIntOk(chars) ==
    LET q == Strip(chars) IN q # <<>> /\ \A k \in 1..Len(q) : IsDigit(q[k])
ParseInt(chars) == IntVal(DigitsVal(Strip(chars)))

ParseFloatOk(chars) ==
    LET q == Strip(chars)
    IN  \/ ParseIntOk(q)
        \/ /\ Len(q) >= 3
           /\ q[Len(q) - 1] = "."
           /\ IsDigit(q[Len(q)])
           /\ ParseIntOk(SubSeq(q, 1, Len(q) - 2))
ParseFloat(chars) ==
    LET q == Strip(chars)
    IN  IF ParseIntOk(q) THEN FloatVal(10 * DigitsVal(q))
        ELSE FloatVal(10 * DigitsVal(SubSeq(q, 1, Len(q) - 2)) + DigitVal(q[Len(q)]))

\* pd.api.types.is_numeric_dtype
is_numeric_dtype(dtype) == dtype \in {"int64", "float64"}

\* dtype.type(translated_value), lines 348-351
CastOk(dtype, v) ==
    IF dtype = "int64" THEN ParseIntOk(v.s) ELSE ParseFloatOk(v.s)
Cast(dtype, v) ==
    IF dtype = "int64" THEN ParseInt(v.s) ELSE ParseFloat(v.s)

\* one cell under Series.astype(dtype)
AsTypeCellOk(v, dtype) ==
    CASE dtype = "object" -> TRUE
      [] dtype = "float64" -> v.t # "str" \/ ParseFloatOk(v.s)
      [] dtype = "int64" -> v.t \in {"int", "float"} \/ (v.t = "str" /\ ParseIntOk(v.s))
AsTypeCell(v, dtype) ==
    CASE dtype = "object" -> v
      [] dtype = "float64" ->
            IF v.t = "nan" THEN v
            ELSE IF v.t = "str" THEN ParseFloat(v.s) ELSE FloatVal(v.n)
      [] dtype = "int64" ->
            IF v.t = "str" THEN ParseInt(v.s) ELSE IntVal(v.n \div 10)

\* Series.astype(dtype): raises when one cell cannot be converted
AsTypeOk(col, dtype) == \A r \in 1..Len(col.cells) : AsTypeCellOk(col.cells[r], dtype)
AsType(col, dtype) ==
    [col EXCEPT !.dtype = dtype,
                !.cells = [r \in 1..Len(col.cells) |-> AsTypeCell(col.cells[r], dtype)]]

\* variant: df[col] = v, the assignment fills the whole column
SetCell_WholeColumn(col, idx, v) ==
    [col EXCEPT !.dtype = "object",
                !.cells = [r \in 1..Len(col.cells) |-> v]]

\* df.at[idx, col] = v; a value the column cannot hold upcasts the column
SetCell(col, idx, v) ==
    LET dtype == IF col.dtype = "object" \/ v.t = "str" THEN "object"
                 ELSE IF col.dtype = "int64" /\ v.t = "float" THEN "float64"
                 ELSE col.dtype
        conv(x) == IF dtype = "float64" /\ x.t = "int" THEN FloatVal(x.n) ELSE x
    IN  [col EXCEPT !.dtype = dtype,
                    !.cells = [r \in 1..Len(col.cells) |->
                                  conv(IF r = idx THEN v ELSE col.cells[r])]]

Column(name, dtype, cells) == [name |-> name, dtype |-> dtype, cells |-> cells]
ColNames(table) == [k \in 1..Len(table) |-> table[k].name]
ColIndex(table, name) == CHOOSE k \in 1..Len(table) : table[k].name = name
Col(table, name) == table[ColIndex(table, name)]
At(table, idx, name) == Col(table, name).cells[idx]
SetAt(table, idx, name, v) ==
    [table EXCEPT ![ColIndex(table, name)] = SetCell(@, idx, v)]

\* utils.get_base_columns / utils.get_language_columns are not part of the
\* sources; column names follow <base><FIELD_LANGUAGE_SEPARATOR><language>.
BaseOf(name) ==
    CASE name \in {"g.en", "g.fr"} -> "g"
      [] name = "h.fr" -> "h"
      [] OTHER -> name
LangOf(name) ==
    CASE name = "g.en" -> "en"
      [] name \in {"g.fr", "h.fr"} -> "fr"
      [] OTHER -> ""

RECURSIVE Dedup(_)
Dedup(q) ==
    IF q = <<>> THEN <<>>
    ELSE LET rest == Dedup(SubSeq(q, 1, Len(q) - 1))
         IN  IF q[Len(q)] \in SeqRange(rest) THEN rest ELSE Append(rest, q[Len(q)])

HasLang(name) == LangOf(name) # ""

get_base_columns(columns) ==
    Dedup([k \in 1..Len(SelectSeq(columns, HasLang)) |->
              BaseOf(SelectSeq(columns, HasLang)[k])])

\* the (language, column) pairs of one base column, in column order
get_language_columns(table, base_col) ==
    LET InGroup(name) == HasLang(name) /\ BaseOf(name) = base_col
        names == SelectSeq(ColNames(table), InGroup)
    IN  [k \in 1..Len(names) |-> [lang |-> LangOf(names[k]), col |-> names[k]]]

LangsOf(lang_columns) == {lang_columns[k].lang : k \in 1..Len(lang_columns)}
ColOfLang(lang_columns, lang) ==
    lang_columns[CHOOSE k \in 1..Len(lang_columns) : lang_columns[k].lang = lang].col

\* the permutations of a finite set, as sequences
Perms(S) == {q \in [1..Cardinality(S) -> S] : SeqRange(q) = S}

\* ------------------------------------------------------------ placeholders
PHNames == <<"P0", "P1", "P2">>       \* <@__PH__n__@>
JPHNames == <<"PJ0", "PJ1">>          \* <@__PH__JSON__n__@>
PlaceholderAtoms == SeqRange(PHNames) \cup SeqRange(JPHNames)
IsPlaceholder(c) == c \in PlaceholderAtoms
IsJsonPlaceholder(c) == c \in SeqRange(JPHNames)

\* TranslationEngine.__should_translate_string on a string
\* ('<@__PH__' in s and s.endswith('__@>'))
should_translate_chars(s) ==
    /\ Strip(s) # <<>>
    /\ ~ (/\ \E k \in 1..Len(s) : IsPlaceholder(s[k])
          /\ IsPlaceholder(s[Len(s)]))

\* ------------------------------------------------------------------- JSON
JStr(chars) == [t |-> "str", s |-> chars, items |-> <<>>]
JNum(chars) == [t |-> "num", s |-> chars, items |-> <<>>]
JList(nodes) == [t |-> "list", s |-> <<>>, items |-> nodes]
JDict(pairs) == [t |-> "dict", s |-> <<>>, items |-> pairs]
KV(key, node) == [k |-> key, v |-> node]

\* TranslationEngine.__should_translate_string on any JSON value
should_translate_string(node) == node.t = "str" /\ should_translate_chars(node.s)

\* json.dumps with the default separators ", " and ": "
RECURSIVE Dumps(_)
RECURSIVE DumpsItems(_, _)
Dumps(node) ==
    CASE node.t = "str" -> <<"\"">> \o node.s \o <<"\"">>
      [] node.t = "num" -> node.s
      [] node.t = "list" -> <<"[">> \o DumpsItems(node.items, FALSE) \o <<"]">>
      [] node.t = "dict" -> <<"{">> \o DumpsItems(node.items, TRUE) \o <<"}">>
DumpsItems(items, isDict) ==
    IF items = <<>> THEN <<>>
    ELSE LET one == IF isDict
                    THEN <<"\"">> \o Head(items).k \o <<"\"", ":", SP>>
                           \o Dumps(Head(items).v)
                    ELSE Dumps(Head(items))
         IN  IF Len(items) = 1 THEN one
             ELSE one \o <<",", SP>> \o DumpsItems(Tail(items), isDict)

\* TranslationEngine.__collect_json_strings: keys first, then the value
RECURSIVE collect_json_strings(_)
RECURSIVE CollectItems(_, _)
collect_json_strings(obj) ==
    CASE obj.t = "dict" -> CollectItems(obj.items, TRUE)
      [] obj.t = "list" -> CollectItems(obj.items, FALSE)
      [] obj.t = "str" -> IF should_translate_chars(obj.s) THEN <<obj.s>> ELSE <<>>
      [] OTHER -> <<>>
CollectItems(items, isDict) ==
    IF items = <<>> THEN <<>>
    ELSE (IF isDict
          THEN (IF should_translate_chars(Head(items).k)
                THEN <<Head(items).k>> ELSE <<>>)
                 \o collect_json_strings(Head(items).v)
          ELSE collect_json_strings(Head(items)))
         \o CollectItems(Tail(items), isDict)

\* dict(zip(keys, vals)) as an association list; zip stops at the shorter list
ZipPairs(keys, vals) ==
    LET n == IF Len(keys) < Len(vals) THEN Len(keys) ELSE Len(vals)
    IN  [k \in 1..n |-> KV(keys[k], vals[k])]

\* d.get(key, default): with repeated keys the last assignment wins
RECURSIVE MapGet(_, _, _)
MapGet(pairs, key, default) ==
    IF pairs = <<>> THEN default
    ELSE IF pairs[Len(pairs)].k = key THEN pairs[Len(pairs)].v
    ELSE MapGet(SubSeq(pairs, 1, Len(pairs) - 1), key, default)

\* d[key] = node on an insertion-ordered dict
RECURSIVE DictSet(_, _, _)
DictSet(pairs, key, node) ==
    IF pairs = <<>> THEN <<KV(key, node)>>
    ELSE IF Head(pairs).k = key THEN <<KV(key, node)>> \o Tail(pairs)
    ELSE <<Head(pairs)>> \o DictSet(Tail(pairs), key, node)

\* TranslationEngine.__replace_json_strings
RECURSIVE replace_json_strings(_, _)
RECURSIVE ReplaceDict(_, _, _)
replace_json_strings(obj, translations_map) ==
    CASE obj.t = "dict" -> JDict(ReplaceDict(obj.items, translations_map, <<>>))
      [] obj.t = "list" ->
            JList([k \in 1..Len(obj.items) |->
                      replace_json_strings(obj.items[k], translations_map)])
      [] obj.t = "str" ->
            IF should_translate_chars(obj.s)
            THEN JStr(MapGet(translations_map, obj.s, obj.s)) ELSE obj
      [] OTHER -> obj
ReplaceDict(items, translations_map, acc) ==
    IF items = <<>> THEN acc
    ELSE LET key == Head(items).k
             newKey == IF should_translate_chars(key)
                       THEN MapGet(translations_map, key, key) ELSE key
         IN  ReplaceDict(Tail(items), translations_map,
                         DictSet(acc, newKey,
                                 replace_json_strings(Head(items).v, translations_map)))

\* ------------------------------------------------- the text protector
\* TranslationProcessor (translation_processor.py) is not part of the
\* sources; it is modelled from its contract in the specification.
\* "U" stands for one URL, "T" for one HTML tag, "M" for one {{token}} marker
ProtectAtoms == {"U", "T", "M"}
NumAtoms == {"0", "1", "2", "3", "4", "5", "6", "7", "8", "9", "."}

\* the JSON objects that occur inside cell values
JsonPool == {JDict(<<KV(<<"a">>, JStr(<<"b">>))>>)}

IsPrefix(pre, q) == Len(pre) <= Len(q) /\ SubSeq(q, 1, Len(pre)) = pre

PHEntry(name, chars) == [ph |-> name, content |-> chars]

RECURSIVE NumRun(_)
NumRun(q) ==
    IF q # <<>> /\ Head(q) \in NumAtoms THEN <<Head(q)>> \o NumRun(Tail(q)) ELSE <<>>

\* protect the string leaves of a JSON value; np counts the placeholders used
RECURSIVE ProtectTree(_, _)
RECURSIVE ProtectItems(_, _, _, _, _)
ProtectTree(node, np) ==
    CASE node.t = "str" ->
            IF Len(node.s) = 1 /\ node.s[1] \in ProtectAtoms
            THEN [node |-> JStr(<<PHNames[np + 1]>>),
                  map |-> <<PHEntry(PHNames[np + 1], node.s)>>, np |-> np + 1]
            ELSE [node |-> node, map |-> <<>>, np |-> np]
      [] node.t \in {"dict", "list"} ->
            LET r == ProtectItems(node.items, node.t = "dict", np, <<>>, <<>>)
            IN  [node |-> [node EXCEPT !.items = r.items], map |-> r.map, np |-> r.np]
      [] OTHER -> [node |-> node, map |-> <<>>, np |-> np]
ProtectItems(items, isDict, np, accItems, accMap) ==
    IF items = <<>> THEN [items |-> accItems, map |-> accMap, np |-> np]
    ELSE LET r == ProtectTree(IF isDict THEN Head(items).v ELSE Head(items), np)
             it == IF isDict THEN KV(Head(items).k, r.node) ELSE r.node
         IN  ProtectItems(Tail(items), isDict, r.np,
                          Append(accItems, it), accMap \o r.map)

\* protect(text) -> (protected_text, placeholder_map)
RECURSIVE PreScan(_, _, _, _, _)
PreScan(q, np, nj, text, map) ==
    IF q = <<>> THEN [text |-> text, map |-> map]
    ELSE IF Head(q) \in ProtectAtoms
    THEN PreScan(Tail(q), np + 1, nj, Append(text, PHNames[np + 1]),
                 Append(map, PHEntry(PHNames[np + 1], <<Head(q)>>)))
    ELSE IF Head(q) \in NumAtoms
    THEN LET run == NumRun(q)
         IN  PreScan(SubSeq(q, Len(run) + 1, Len(q)), np + 1, nj,
                     Append(text, PHNames[np + 1]),
                     Append(map, PHEntry(PHNames[np + 1], run)))
    ELSE IF Head(q) = "{" /\ \E t \in JsonPool : IsPrefix(Dumps(t), q)
    THEN LET t == CHOOSE t \in JsonPool : IsPrefix(Dumps(t), q)
             r == ProtectTree(t, np)
         IN  PreScan(SubSeq(q, Len(Dumps(t)) + 1, Len(q)), r.np, nj + 1,
                     Append(text, JPHNames[nj + 1]),
                     r.map \o <<PHEntry(JPHNames[nj + 1], Dumps(r.node))>>  \o map)
    ELSE PreScan(Tail(q), np, nj, Append(text, Head(q)), map)

preprocess(chars) == PreScan(chars, 0, 0, <<>>, <<>>)

HasEntry(map, name) == \E k \in 1..Len(map) : map[k].ph = name
EntryOf(map, name) == map[CHOOSE k \in 1..Len(map) : map[k].ph = name]

SetEntry(map, name, chars) ==
    [k \in 1..Len(map) |-> IF map[k].ph = name THEN PHEntry(name, chars) ELSE map[k]]

\* restore(text, placeholder_map) -> text, nested placeholders included
RECURSIVE Restore(_, _, _)
Restore(text, map, depth) ==
    IF text = <<>> THEN <<>>
    ELSE (IF depth > 0 /\ HasEntry(map, Head(text))
          THEN Restore(EntryOf(map, Head(text)).content, map, depth - 1)
          ELSE <<Head(text)>>)
         \o Restore(Tail(text), map, depth)

postprocess(text, map) == Restore(text, map, 3)

\* json.loads on the content of a JSON placeholder
LoadPool == {ProtectTree(t, np).node : t \in JsonPool, np \in 0..(Len(PHNames) - 1)}
LoadsOk(chars) == \E t \in LoadPool : Dumps(t) = chars
Loads(chars) == CHOOSE t \in LoadPool : Dumps(t) = chars

\* ------------------------------------------------------------ configuration
\* os.getenv(name): None when the variable is not set, else its string
PyNone == [t |-> "None", s |-> <<>>, n |-> 0]

\* int(s) of a string: optional sign, then digits; ValueError otherwise
PyIntOk(chars) ==
    LET q == Strip(chars)
    IN  IF q # <<>> /\ Head(q) \in {"-", "+"} THEN ParseIntOk(Tail(q)) ELSE ParseIntOk(q)
PyInt(chars) ==
    LET q == Strip(chars)
    IN  IF Head(q) = "-" THEN 0 - DigitsVal(Tail(q))
        ELSE IF Head(q) = "+" THEN DigitsVal(Tail(q)) ELSE DigitsVal(q)
\* str(k) of a small integer
IntStr(k) == IF k < 0 THEN <<"-", DigitChar(0 - k)>> ELSE <<DigitChar(k)>>

\* float(s) of a string
PyFloatOk(chars) == ParseFloatOk(chars)

\* an environment in which every setting is present and usable
EnvOf(size) ==
    [dotenv |-> TRUE,
     OPENAI_API_KEY |-> Str(<<"k">>), OPENAI_MODEL |-> Str(<<"m">>),
     MAX_TOKENS |-> Str(<<"5">>), TEMPERATURE |-> Str(<<"0", ".", "5">>),
     BATCH_SIZE |-> Str(IntStr(size)),
     SET_SEPARATOR |-> Str(<<",">>), OUTPUT_SUFFIX |-> Str(<<"_">>),
     LANGUAGE_SEPARATOR |-> Str(<<"-">>), FIELD_LANGUAGE_SEPARATOR |-> Str(<<".">>)]

VARIABLES
    entry,            \* the public method under analysis
    trace,            \* requests, responses and sleeps of the current service call
    failures,         \* failed requests produced by the remote so far
    \* translate_batch frame
    pcB, tb_texts, max_retries, attempt, tb_ret,
    \* translate_texts frame
    pcT, tt_texts, batch_size, i, all_translations, tt_ret,
    \* translate_values frame
    pcV, tv_values, valid_values, translations, vi,
    preprocessed_text, processed_text, extracted, json_placeholders, ji, tv_ret,
    log,              \* what self.logger has reported: line, unit, value index
    short,            \* the service calls that returned fewer entries than sent
    steps,            \* the processor and service calls of this translate_values call
    unit,             \* the cell translate_values is working for
    \* translate_dataframe frame
    pcD, df, df_translated, set_columns, exclude_columns,
    base_columns, bi, lang_columns, li, rows_to_translate, ri,
    all_elements, set_translations, translation_count, skipped_count, td_ret,
    sent,             \* a request has been issued since the flag was cleared
    run, first_in, first_out,   \* which run this is; the first run's tables
    requested, called, writes,  \* per cell: requests, translate_values calls, writes
    save_callback,    \* translate_dataframe was given a save_callback
    \* process_file frame
    pcP, save_interval, pf_translation_count, last_save,
    saved,            \* the tables written to output_path, oldest first
    \* the constructors
    env,              \* what load_dotenv and os.getenv deliver
    pcS, pcE,         \* TranslationService.__init__, TranslationEngine.__init__
    remote,           \* the remote model: "any" behaviour, or an "identity" translator
    \* a helper of the engine applied on its own
    pcF, arg, result,
    \* the validation engine and its validators
    file_validator, dataframe_validator, field_validator,  \* provided or None
    require_header,   \* FileValidator(require_header=...)
    lists,            \* the list objects: lists[id] is the content of list id
    _results,         \* ValidationEngine._results, the id of a list
    validator_results,  \* BaseValidator.__results of each validator, ids
    self_df,          \* ValidationEngine.df, unset until a file was read
    pcVal, file_path, df_arg,   \* the validation call in progress
    calls,            \* validate_file / validate_dataframe calls made so far
    returned,         \* the lists earlier calls returned, as they were then
    ran               \* the current call and its steps with their results

svcVars == <<trace, failures, sent, pcB, tb_texts, max_retries, attempt, tb_ret,
             pcT, tt_texts, batch_size, i, all_translations, tt_ret>>

tvVars == <<pcV, tv_values, valid_values, translations, vi,
            preprocessed_text, processed_text, extracted, json_placeholders,
            ji, tv_ret, log, short, steps>>

pfVars == <<save_callback, pcP, save_interval, pf_translation_count, last_save,
            saved>>

dfVars == <<pfVars, pcD, df, df_translated, set_columns, exclude_columns,
            base_columns, bi, lang_columns, li, rows_to_translate, ri,
            all_elements, set_translations, translation_count, skipped_count,
            td_ret, run, first_in, first_out, requested, called, writes>>

engVars == <<tvVars, unit, dfVars>>

cfgVars == <<env, pcS, pcE, remote>>

fnVars == <<pcF, arg, result>>

valVars == <<file_validator, dataframe_validator, field_validator,
             require_header, lists, _results, validator_results, self_df,
             pcVal, file_path, df_arg, calls, returned, ran>>

vars == <<entry, cfgVars, fnVars, valVars, svcVars, engVars>>

TextPool == {<<"a">>, <<"b">>}
TextLists == SeqsUpTo(TextPool, MaxTexts)
BatchSizes == -1..MaxBatchSize

\* ------------------------------------------------------- translate_batch
\* lines 136-139: empty batch, loop entry
TB_Start ==
    /\ pcB = "start"
    /\ IF tb_texts = <<>>
       THEN /\ tb_ret' = ReturnList(<<>>)
            /\ pcB' = "done"
       ELSE IF max_retries <= 0
       THEN /\ tb_ret' = ReturnNone
            /\ pcB' = "done"
       ELSE /\ tb_ret' = tb_ret
            /\ pcB' = "request"
    /\ attempt' = 0
    /\ UNCHANGED <<entry, valVars, cfgVars, fnVars, sent, trace, failures, tb_texts, max_retries,
                   pcT, tt_texts, batch_size, i, all_translations, tt_ret, engVars>>

\* variant: the response of an attempt that can be retried is not awaited
TB_Send_Unawaited ==
    /\ pcB = "request"
    /\ trace' = Append(trace, ReqEvent(tb_texts))
    /\ sent' = TRUE
    /\ pcB' = IF attempt < max_retries - 1 THEN "sleep" ELSE "await"
    /\ UNCHANGED <<entry, valVars, cfgVars, fnVars, failures, tb_texts, max_retries, attempt, tb_ret,
                   pcT, tt_texts, batch_size, i, all_translations, tt_ret, engVars>>

\* lines 141-155: the request is issued and the task suspends
TB_Send ==
    /\ pcB = "request"
    /\ trace' = Append(trace, ReqEvent(tb_texts))
    /\ sent' = TRUE
    /\ pcB' = "await"
    /\ UNCHANGED <<entry, valVars, cfgVars, fnVars, failures, tb_texts, max_retries, attempt, tb_ret,
                   pcT, tt_texts, batch_size, i, all_translations, tt_ret, engVars>>

\* lines 168-172: the except clause (also reached by the ValueError of line 163)
TB_Except ==
    IF attempt < max_retries - 1
    THEN /\ pcB' = "sleep"
         /\ tb_ret' = tb_ret
    ELSE /\ pcB' = "done"
         /\ tb_ret' = Raise("Exception")

\* variant: the last attempt returns whatever came back
TB_Response_NoCheck(response) ==
    LET lines == _process_response(response)
    IN  IF Len(lines) # Len(tb_texts) /\ attempt < max_retries - 1
        THEN /\ failures < MaxFailures
             /\ failures' = failures + 1
             /\ trace' = Append(trace, RespEvent("misaligned", <<>>))
             /\ pcB' = "sleep"
             /\ tb_ret' = tb_ret
        ELSE /\ failures' = failures
             /\ trace' = Append(trace, RespEvent("ok", lines))
             /\ pcB' = "done"
             /\ tb_ret' = ReturnList(lines)

\* variant: the response is compared with the lines of the prompt
TB_Response_PromptLines(response) ==
    LET lines == _process_response(response)
    IN  IF Len(lines) # Len(Split(_create_user_prompt(tb_texts), NL))
        THEN /\ failures < MaxFailures
             /\ failures' = failures + 1
             /\ trace' = Append(trace, RespEvent("misaligned", <<>>))
             /\ IF attempt < max_retries - 1
                THEN /\ pcB' = "sleep"
                     /\ tb_ret' = tb_ret
                ELSE TB_Except
        ELSE /\ failures' = failures
             /\ trace' = Append(trace, RespEvent("ok", lines))
             /\ pcB' = "done"
             /\ tb_ret' = ReturnList(lines)

\* lines 157-166: the response arrives and is checked
TB_Response(response) ==
    LET lines == _process_response(response)
    IN  IF Len(lines) # Len(tb_texts)
        THEN /\ failures < MaxFailures
             /\ failures' = failures + 1
             /\ trace' = Append(trace, RespEvent("misaligned", <<>>))
             /\ IF attempt < max_retries - 1
                THEN /\ pcB' = "sleep"
                     /\ tb_ret' = tb_ret
                ELSE TB_Except
        ELSE /\ failures' = failures
             /\ trace' = Append(trace, RespEvent("ok", lines))
             /\ pcB' = "done"
             /\ tb_ret' = ReturnList(lines)

\* variant: a request error is not retried
TB_RequestError_NoRetry ==
    /\ failures < MaxFailures
    /\ failures' = failures + 1
    /\ trace' = Append(trace, RespEvent("error", <<>>))
    /\ pcB' = "done"
    /\ tb_ret' = Raise("Exception")

\* line 141 raising: transport or provider error
TB_RequestError ==
    /\ failures < MaxFailures
    /\ failures' = failures + 1
    /\ trace' = Append(trace, RespEvent("error", <<>>))
    /\ TB_Except

\* the contents the remote answers with; an identity translator echoes the
\* prompt and never fails
Responses(prompt) ==
    IF remote = "identity" THEN {prompt} ELSE RemoteResponses(prompt)

TB_Receive ==
    /\ pcB = "await"
    /\ \/ \E response \in Responses(_create_user_prompt(tb_texts)) :
             TB_Response(response)
       \/ remote # "identity" /\ TB_RequestError
    /\ UNCHANGED <<entry, valVars, cfgVars, fnVars, sent, tb_texts, max_retries, attempt,
                   pcT, tt_texts, batch_size, i, all_translations, tt_ret, engVars>>

\* variant: a constant delay instead of 2 ** attempt
TB_Sleep_Fixed ==
    /\ pcB = "sleep"
    /\ trace' = Append(trace, BackoffEvent(1))
    /\ attempt' = attempt + 1
    /\ pcB' = "request"
    /\ UNCHANGED <<entry, valVars, cfgVars, fnVars, sent, failures, tb_texts, max_retries, tb_ret,
                   pcT, tt_texts, batch_size, i, all_translations, tt_ret, engVars>>

\* lines 161-162 and 170-171: exponential backoff, then the next attempt
TB_Sleep ==
    /\ pcB = "sleep"
    /\ trace' = Append(trace, BackoffEvent(Pow2(attempt)))
    /\ attempt' = attempt + 1
    /\ pcB' = "request"
    /\ UNCHANGED <<entry, valVars, cfgVars, fnVars, sent, failures, tb_texts, max_retries, tb_ret,
                   pcT, tt_texts, batch_size, i, all_translations, tt_ret, engVars>>

translate_batch == TB_Start \/ TB_Send \/ TB_Receive \/ TB_Sleep

\* ------------------------------------------------------- translate_texts
\* lines 188-190: range(0, len(texts), batch_size) raises for a zero step
TT_Start ==
    /\ pcT = "start"
    /\ all_translations' = <<>>
    /\ i' = 0
    /\ trace' = <<>>
    /\ IF batch_size = 0
       THEN /\ pcT' = "done"
            /\ tt_ret' = Raise("ValueError")
       ELSE /\ pcT' = "loop"
            /\ tt_ret' = tt_ret
    /\ UNCHANGED <<entry, valVars, cfgVars, fnVars, sent, failures, pcB, tb_texts, max_retries, attempt, tb_ret,
                   tt_texts, batch_size, engVars>>

\* variant: the slice is one text too long
TT_Loop_Overlap ==
    /\ pcT = "loop"
    /\ IF batch_size > 0 /\ i < Len(tt_texts)
       THEN /\ tb_texts' = Slice(tt_texts, i, batch_size + 1)
            /\ max_retries' = DefaultMaxRetries
            /\ pcB' = "start"
            /\ pcT' = "call"
            /\ tt_ret' = tt_ret
       ELSE /\ pcT' = "done"
            /\ tt_ret' = ReturnList(all_translations)
            /\ UNCHANGED <<tb_texts, max_retries, pcB>>
    /\ UNCHANGED <<entry, valVars, cfgVars, fnVars, sent, trace, failures, attempt, tb_ret,
                   tt_texts, batch_size, i, all_translations, engVars>>

\* lines 190-195: next batch, or line 206 when the range is exhausted
TT_Loop ==
    /\ pcT = "loop"
    /\ IF batch_size > 0 /\ i < Len(tt_texts)
       THEN /\ tb_texts' = Slice(tt_texts, i, batch_size)
            /\ max_retries' = DefaultMaxRetries
            /\ pcB' = "start"
            /\ pcT' = "call"
            /\ tt_ret' = tt_ret
       ELSE /\ pcT' = "done"
            /\ tt_ret' = ReturnList(all_translations)
            /\ UNCHANGED <<tb_texts, max_retries, pcB>>
    /\ UNCHANGED <<entry, valVars, cfgVars, fnVars, sent, trace, failures, attempt, tb_ret,
                   tt_texts, batch_size, i, all_translations, engVars>>

\* variant: a failed batch is skipped and the loop goes on
TT_AfterBatch_Continue ==
    /\ pcT = "call"
    /\ pcB = "done"
    /\ pcB' = "idle"
    /\ all_translations' =
          IF tb_ret.kind = "list" THEN all_translations \o tb_ret.val
          ELSE all_translations
    /\ tt_ret' = tt_ret
    /\ IF i + batch_size < Len(tt_texts)
       THEN /\ pcT' = "sleep"
            /\ i' = i
       ELSE /\ pcT' = "loop"
            /\ i' = i + batch_size
    /\ UNCHANGED <<entry, valVars, cfgVars, fnVars, sent, trace, failures, tb_texts, max_retries, attempt, tb_ret,
                   tt_texts, batch_size, engVars>>

\* variant: assignment instead of extend
TT_AfterBatch_Overwrite ==
    /\ pcT = "call"
    /\ pcB = "done"
    /\ pcB' = "idle"
    /\ IF tb_ret.kind = "list"
       THEN /\ all_translations' = tb_ret.val
            /\ tt_ret' = tt_ret
            /\ IF i + batch_size < Len(tt_texts)
               THEN /\ pcT' = "sleep"
                    /\ i' = i
               ELSE /\ pcT' = "loop"
                    /\ i' = i + batch_size
       ELSE /\ all_translations' = all_translations
            /\ tt_ret' = ReturnList(all_translations)
            /\ pcT' = "done"
            /\ i' = i
    /\ UNCHANGED <<entry, valVars, cfgVars, fnVars, sent, trace, failures, tb_texts, max_retries, attempt, tb_ret,
                   tt_texts, batch_size, engVars>>

\* variant: the rate-limit delay also follows the last batch
TT_AfterBatch_AlwaysSleep ==
    /\ pcT = "call"
    /\ pcB = "done"
    /\ pcB' = "idle"
    /\ IF tb_ret.kind = "list"
       THEN /\ all_translations' = all_translations \o tb_ret.val
            /\ tt_ret' = tt_ret
            /\ pcT' = "sleep"
            /\ i' = i
       ELSE /\ all_translations' = all_translations
            /\ tt_ret' = ReturnList(all_translations)
            /\ pcT' = "done"
            /\ i' = i
    /\ UNCHANGED <<entry, valVars, cfgVars, fnVars, sent, trace, failures, tb_texts, max_retries, attempt, tb_ret,
                   tt_texts, batch_size, engVars>>

\* lines 196-204: extend, rate limit, or the partial result
TT_AfterBatch ==
    /\ pcT = "call"
    /\ pcB = "done"
    /\ pcB' = "idle"
    /\ IF tb_ret.kind = "list"
       THEN /\ all_translations' = all_translations \o tb_ret.val
            /\ tt_ret' = tt_ret
            /\ IF i + batch_size < Len(tt_texts)
               THEN /\ pcT' = "sleep"
                    /\ i' = i
               ELSE /\ pcT' = "loop"
                    /\ i' = i + batch_size
       ELSE /\ all_translations' = all_translations
            /\ tt_ret' = ReturnList(all_translations)
            /\ pcT' = "done"
            /\ i' = i
    /\ UNCHANGED <<entry, valVars, cfgVars, fnVars, sent, trace, failures, tb_texts, max_retries, attempt, tb_ret,
                   tt_texts, batch_size, engVars>>

\* line 200: rate limiting between batches
TT_Sleep ==
    /\ pcT = "sleep"
    /\ trace' = Append(trace, RateLimitEvent(RateLimitDelay))
    /\ i' = i + batch_size
    /\ pcT' = "loop"
    /\ UNCHANGED <<entry, valVars, cfgVars, fnVars, sent, failures, pcB, tb_texts, max_retries, attempt, tb_ret,
                   tt_texts, batch_size, all_translations, tt_ret, engVars>>

translate_texts == TT_Start \/ TT_Loop \/ TT_AfterBatch \/ TT_Sleep

\* ------------------------------------------------------- translate_values
NoUnit == [row |-> 0, col |-> "-"]
LogEntry(line) == [line |-> line, unit |-> unit, vi |-> vi]
\* one call made for the value at index vi; ph are the placeholders of the map
\* a processor call produced or used
Step(op, ph) == [op |-> op, vi |-> vi, ph |-> ph]
Placeholders(map) == [k \in 1..Len(map) |-> map[k].ph]

\* line 138: pd.notna(v) and str(v).strip()
IsValidValue(v) == notna(v) /\ Strip(PyStr(v)) # <<>>

\* lines 137-143
TV_Start ==
    /\ pcV = "start"
    /\ valid_values' = SelectSeq(tv_values, IsValidValue)
    /\ translations' = <<>>
    /\ vi' = 1
    /\ IF valid_values' = <<>>
       THEN /\ pcV' = "done"
            /\ tv_ret' = ReturnList(tv_values)
       ELSE /\ pcV' = "value"
            /\ tv_ret' = tv_ret
    /\ steps' = <<>>
    /\ UNCHANGED <<entry, valVars, cfgVars, fnVars, svcVars, tv_values, preprocessed_text, processed_text,
                   extracted, json_placeholders, ji, log, short, unit, dfVars>>

\* lines 207-209 followed by the next iteration of the loop of line 144
TV_Fallback ==
    /\ log' = log \cup {LogEntry(208)}
    /\ translations' = Append(translations, valid_values[vi])
    /\ steps' = Append(steps, Step("fallback", <<>>))
    /\ vi' = vi + 1
    /\ pcV' = IF vi < Len(valid_values) THEN "value" ELSE "finish"

\* lines 144-157: protect the value and send the main text; str.split with
\* an empty LANGUAGE_SEPARATOR raises ValueError before the request
TV_Value ==
    /\ pcV = "value"
    /\ LET value == valid_values[vi]
       IN  IF value.t # "str" \/ env.LANGUAGE_SEPARATOR.s = <<>>
           THEN /\ TV_Fallback
                /\ UNCHANGED <<svcVars, preprocessed_text, extracted,
                               json_placeholders>>
           ELSE LET pre == preprocess(value.s)
                IN  /\ preprocessed_text' = pre.text
                    /\ extracted' = pre.map
                    /\ json_placeholders' =
                          SelectSeq([k \in 1..Len(pre.map) |-> pre.map[k].ph],
                                    IsJsonPlaceholder)
                    /\ tt_texts' = <<pre.text>>
                    /\ pcT' = "start"
                    /\ pcV' = "main"
                    /\ steps' = steps \o <<Step("preprocess", Placeholders(pre.map)),
                                            Step("main", <<>>)>>
                    /\ UNCHANGED <<trace, failures, sent, pcB, tb_texts, max_retries,
                                   attempt, tb_ret, batch_size, i,
                                   all_translations, tt_ret,
                                   translations, vi, log>>
    /\ UNCHANGED <<entry, valVars, cfgVars, fnVars, tv_values, valid_values, processed_text, ji, tv_ret,
                   short, unit, dfVars>>

\* line 158: translated[0]
TV_AfterMain ==
    /\ pcV = "main"
    /\ pcT = "done"
    /\ pcT' = "idle"
    /\ trace' = <<>>
    /\ short' = IF tt_ret.kind = "list" /\ Len(tt_ret.val) < Len(tt_texts)
                THEN short \cup {[unit |-> unit, vi |-> vi, site |-> "main"]}
                ELSE short
    /\ IF tt_ret.kind = "list" /\ tt_ret.val # <<>>
       THEN /\ processed_text' = tt_ret.val[1]
            /\ ji' = 1
            /\ pcV' = "json"
            /\ UNCHANGED <<translations, vi, log, steps>>
       ELSE /\ TV_Fallback
            /\ UNCHANGED <<processed_text, ji>>
    /\ UNCHANGED <<entry, valVars, cfgVars, fnVars, failures, sent, pcB, tb_texts, max_retries, attempt,
                   tb_ret, tt_texts, batch_size, i, all_translations, tt_ret,
                   tv_values, valid_values, preprocessed_text, extracted,
                   json_placeholders, tv_ret, unit, dfVars>>

TV_Json_RestoreFirst ==
    /\ pcV = "json"
    /\ translations' =
          Append(translations, Str(postprocess(processed_text, extracted)))
    /\ steps' = Append(steps, Step("postprocess", Placeholders(extracted)))
    /\ vi' = vi + 1
    /\ pcV' = IF vi < Len(valid_values) THEN "value" ELSE "finish"
    /\ UNCHANGED <<svcVars, ji, log>>
    /\ UNCHANGED <<entry, valVars, cfgVars, fnVars, tv_values, valid_values, preprocessed_text,
                   processed_text, extracted, json_placeholders, tv_ret,
                   short, unit, dfVars>>

\* lines 161-187 for one JSON placeholder, lines 204-206 after the last one
TV_Json ==
    /\ pcV = "json"
    /\ IF ji > Len(json_placeholders)
       THEN /\ translations' =
                  Append(translations, Str(postprocess(processed_text, extracted)))
            /\ steps' = Append(steps, Step("postprocess", Placeholders(extracted)))
            /\ vi' = vi + 1
            /\ pcV' = IF vi < Len(valid_values) THEN "value" ELSE "finish"
            /\ UNCHANGED <<svcVars, ji, log>>
       ELSE LET json_content == EntryOf(extracted, json_placeholders[ji]).content
            IN  IF ~ LoadsOk(json_content)
                THEN /\ log' = log \cup {LogEntry(174)}
                     /\ ji' = ji + 1
                     /\ UNCHANGED <<svcVars, translations, vi, pcV, steps>>
                ELSE LET to_translate == collect_json_strings(Loads(json_content))
                     IN  IF to_translate = <<>>
                         THEN /\ ji' = ji + 1
                              /\ UNCHANGED <<svcVars, translations, vi, pcV, log, steps>>
                         ELSE /\ tt_texts' = to_translate
                              /\ pcT' = "start"
                              /\ pcV' = "json_call"
                              /\ steps' = Append(steps, Step("json", <<>>))
                              /\ UNCHANGED <<trace, failures, sent, pcB, tb_texts,
                                             max_retries, attempt, tb_ret,
                                             batch_size, i, all_translations,
                                             tt_ret, translations, vi, ji, log>>
    /\ UNCHANGED <<entry, valVars, cfgVars, fnVars, tv_values, valid_values, preprocessed_text,
                   processed_text, extracted, json_placeholders, tv_ret,
                   short, unit, dfVars>>

\* lines 189-202: zip, replace, dump, update the placeholder
TV_AfterJson ==
    /\ pcV = "json_call"
    /\ pcT = "done"
    /\ pcT' = "idle"
    /\ trace' = <<>>
    /\ pcV' = "json"
    /\ ji' = ji + 1
    /\ steps' = steps
    /\ IF tt_ret.kind = "list"
       THEN LET placeholder == json_placeholders[ji]
                json_data == Loads(EntryOf(extracted, placeholder).content)
                translations_map == ZipPairs(tt_texts, tt_ret.val)
                translated_json == replace_json_strings(json_data, translations_map)
            IN  /\ extracted' = SetEntry(extracted, placeholder, Dumps(translated_json))
                /\ short' = IF Len(tt_ret.val) < Len(tt_texts)
                            THEN short \cup {[unit |-> unit, vi |-> vi, site |-> "json"]}
                            ELSE short
                /\ log' = log
       ELSE /\ log' = log \cup {LogEntry(202)}
            /\ UNCHANGED <<extracted, short>>
    /\ UNCHANGED <<entry, valVars, cfgVars, fnVars, failures, sent, pcB, tb_texts, max_retries, attempt,
                   tb_ret, tt_texts, batch_size, i, all_translations, tt_ret,
                   tv_values, valid_values, translations, vi, preprocessed_text,
                   processed_text, json_placeholders, tv_ret, unit, dfVars>>

\* lines 211-215
TV_Finish ==
    /\ pcV = "finish"
    /\ LET translation_map == ZipPairs(valid_values, translations)
       IN  tv_ret' = ReturnList(
              [k \in 1..Len(tv_values) |->
                  IF notna(tv_values[k])
                  THEN MapGet(translation_map, Str(Strip(PyStr(tv_values[k]))),
                              tv_values[k])
                  ELSE tv_values[k]])
    /\ pcV' = "done"
    /\ steps' = steps
    /\ UNCHANGED <<entry, valVars, cfgVars, fnVars, svcVars, tv_values, valid_values, translations, vi,
                   preprocessed_text, processed_text, extracted,
                   json_placeholders, ji, log, short, unit, dfVars>>

translate_values ==
    TV_Start \/ TV_Value \/ TV_AfterMain \/ TV_Json \/ TV_AfterJson \/ TV_Finish

\* ---------------------------------------------------- translate_dataframe
SourceLang == "en"       \* TranslationEngine(source_lang=...)
SetSeparator == ","      \* SET_SEPARATOR

NoTable == [kind |-> "none"]
ReturnTable == [kind |-> "table"]
Cell(idx, name) == [row |-> idx, col |-> name]
DFLog(line, u) == [line |-> line, unit |-> u, vi |-> 0]

\* bool(v) of a cell value, line 301
Truthy(v) ==
    CASE v.t = "str" -> v.s # <<>>
      [] v.t \in {"int", "float"} -> v.n # 0
      [] OTHER -> TRUE

\* df[pd.isna(df[target_col]) & pd.notna(df[source_col])].index
RowsWhere(table, target_col, source_col, targetMissing) ==
    LET Sel(r) == /\ isna(At(table, r, target_col)) = targetMissing
                  /\ notna(At(table, r, source_col))
    IN  SelectSeq([r \in 1..Len(table[1].cells) |-> r], Sel)

\* lines 298-302: the stripped elements of all rows to translate, flattened
RECURSIVE AllElements(_, _, _)
AllElements(table, rows, source_col) ==
    IF rows = <<>> THEN <<>>
    ELSE LET v == At(table, Head(rows), source_col)
             parts == IF Truthy(v) THEN Split(PyStr(v), SetSeparator) ELSE <<>>
         IN  [k \in 1..Len(parts) |-> Str(Strip(parts[k]))]
               \o AllElements(table, Tail(rows), source_col)

\* list.index(x): position of the first equal entry, ValueError when absent
IndexOk(q, x) == \E k \in 1..Len(q) : q[k] = x
Index(q, x) == CHOOSE k \in 1..Len(q) : q[k] = x /\ \A j \in 1..(k - 1) : q[j] # x

\* lines 242-257: every target column takes the dtype of its source column
SourceColOf(table, name) ==
    ColOfLang(get_language_columns(table, BaseOf(name)), SourceLang)
IsCastTarget(table, name) ==
    /\ HasLang(name)
    /\ LangOf(name) # SourceLang
    /\ SourceLang \in LangsOf(get_language_columns(table, BaseOf(name)))
CastsOk(table) ==
    \A k \in 1..Len(table) :
        IsCastTarget(table, table[k].name) =>
            AsTypeOk(table[k], Col(table, SourceColOf(table, table[k].name)).dtype)
CastTargets(table) ==
    [k \in 1..Len(table) |->
        IF IsCastTarget(table, table[k].name)
        THEN AsType(table[k], Col(table, SourceColOf(table, table[k].name)).dtype)
        ELSE table[k]]

\* variant: strict comparison in the interval test
save_progress_Late(current_df, count) ==
    /\ IF save_callback /\ count > 0
       THEN /\ pf_translation_count' = pf_translation_count + 1
            /\ IF save_interval # 0
                    /\ (pf_translation_count' - last_save) > save_interval
               THEN /\ saved' = Append(saved, [table |-> current_df,
                                                units |-> pf_translation_count',
                                                final |-> FALSE])
                    /\ last_save' = pf_translation_count'
               ELSE UNCHANGED <<saved, last_save>>
       ELSE UNCHANGED <<pf_translation_count, last_save, saved>>
    /\ UNCHANGED <<save_callback, pcP, save_interval>>

\* lines 392-399 reached from lines 323-324 and 355-356: the callback is
\* awaited after a cell was written; count is translate_dataframe's counter
save_progress(current_df, count) ==
    /\ IF save_callback /\ count > 0
       THEN /\ pf_translation_count' = pf_translation_count + 1
            /\ IF save_interval # 0
                    /\ (pf_translation_count' - last_save) >= save_interval
               THEN /\ saved' = Append(saved, [table |-> current_df,
                                                units |-> pf_translation_count',
                                                final |-> FALSE])
                    /\ last_save' = pf_translation_count'
               ELSE UNCHANGED <<saved, last_save>>
       ELSE UNCHANGED <<pf_translation_count, last_save, saved>>
    /\ UNCHANGED <<save_callback, pcP, save_interval>>

\* lines 234-270
TD_Start ==
    /\ pcD = "start"
    /\ translation_count' = 0
    /\ skipped_count' = 0
    /\ bi' = 1
    /\ IF CastsOk(df)
       THEN /\ df_translated' = CastTargets(df)
            /\ base_columns' \in
                  Perms(SeqRange(get_base_columns(ColNames(df))) \ exclude_columns)
            /\ pcD' = "group"
            /\ td_ret' = td_ret
       ELSE /\ df_translated' = df
            /\ base_columns' = <<>>
            /\ pcD' = "done"
            /\ td_ret' = Raise("ValueError")
    /\ UNCHANGED <<entry, valVars, cfgVars, fnVars, pfVars, svcVars, tvVars, unit, df, set_columns, exclude_columns,
                   lang_columns, li, rows_to_translate, ri, all_elements,
                   set_translations, run, first_in, first_out,
                   requested, called, writes>>

\* variant: lang_columns[self.source_lang] without the test of line 281
TD_Group_NoSourceRaises ==
    /\ pcD = "group"
    /\ IF bi > Len(base_columns)
       THEN /\ pcD' = "done"
            /\ td_ret' = ReturnTable
            /\ UNCHANGED <<bi, lang_columns, li, log>>
       ELSE LET lc == get_language_columns(df, base_columns[bi])
            IN  /\ lang_columns' = lc
                /\ IF SourceLang \notin LangsOf(lc)
                   THEN /\ log' = log
                        /\ bi' = bi
                        /\ pcD' = "done"
                        /\ td_ret' = Raise("KeyError")
                        /\ li' = li
                   ELSE /\ log' = log
                        /\ bi' = bi
                        /\ li' = 1
                        /\ pcD' = "lang"
                        /\ td_ret' = td_ret
    /\ UNCHANGED <<entry, valVars, cfgVars, fnVars, pfVars, svcVars, pcV, tv_values, valid_values, translations, vi,
                   preprocessed_text, processed_text, extracted,
                   json_placeholders, ji, tv_ret, short, steps, unit,
                   df, df_translated, set_columns, exclude_columns, base_columns,
                   rows_to_translate, ri, all_elements, set_translations,
                   translation_count, skipped_count, run, first_in, first_out,
                   requested, called, writes>>

\* lines 272-287, and lines 363-364 after the last base column
TD_Group ==
    /\ pcD = "group"
    /\ IF bi > Len(base_columns)
       THEN /\ pcD' = "done"
            /\ td_ret' = ReturnTable
            /\ UNCHANGED <<bi, lang_columns, li, log>>
       ELSE LET lc == get_language_columns(df, base_columns[bi])
            IN  /\ lang_columns' = lc
                /\ td_ret' = td_ret
                /\ IF SourceLang \notin LangsOf(lc)
                   THEN /\ log' = log \cup {DFLog(282, Cell(0, base_columns[bi]))}
                        /\ bi' = bi + 1
                        /\ pcD' = "group"
                        /\ li' = li
                   ELSE /\ log' = log
                        /\ bi' = bi
                        /\ li' = 1
                        /\ pcD' = "lang"
    /\ UNCHANGED <<entry, valVars, cfgVars, fnVars, pfVars, svcVars, pcV, tv_values, valid_values, translations, vi,
                   preprocessed_text, processed_text, extracted,
                   json_placeholders, ji, tv_ret, short, steps, unit,
                   df, df_translated, set_columns, exclude_columns, base_columns,
                   rows_to_translate, ri, all_elements, set_translations,
                   translation_count, skipped_count, run, first_in, first_out,
                   requested, called, writes>>

\* lines 325-329 and 357-361: nothing to translate for this language
TD_Skip(target_col, source_col) ==
    /\ skipped_count' =
          skipped_count + Len(RowsWhere(df, target_col, source_col, FALSE))
    /\ li' = li + 1
    /\ pcD' = "lang"

\* lines 289-311 and 330-334: one target language of the current base column;
\* str.split with an empty SET_SEPARATOR raises ValueError at line 301
TD_Lang ==
    /\ pcD = "lang"
    /\ IF li > Len(lang_columns)
       THEN /\ bi' = bi + 1
            /\ pcD' = "group"
            /\ UNCHANGED <<li, rows_to_translate, ri, all_elements, skipped_count,
                           pcV, tv_values, unit, sent, called, td_ret>>
       ELSE IF lang_columns[li].lang = SourceLang
       THEN /\ li' = li + 1
            /\ UNCHANGED <<bi, pcD, rows_to_translate, ri, all_elements,
                           skipped_count, pcV, tv_values, unit, sent, called,
                           td_ret>>
       ELSE LET target_col == lang_columns[li].col
                source_col == ColOfLang(lang_columns, SourceLang)
                rows == RowsWhere(df, target_col, source_col, TRUE)
                elems == AllElements(df, rows, source_col)
            IN  /\ bi' = bi
                /\ rows_to_translate' = rows
                /\ ri' = 1
                /\ IF rows = <<>>
                   THEN /\ TD_Skip(target_col, source_col)
                        /\ UNCHANGED <<all_elements, pcV, tv_values, unit, sent,
                                       called, td_ret>>
                   ELSE IF /\ base_columns[bi] \in set_columns
                           /\ env.SET_SEPARATOR.s = <<>>
                           /\ \E k \in 1..Len(rows) : Truthy(At(df, rows[k], source_col))
                   THEN /\ pcD' = "done"
                        /\ td_ret' = Raise("ValueError")
                        /\ UNCHANGED <<li, all_elements, skipped_count, pcV,
                                       tv_values, unit, sent, called>>
                   ELSE IF base_columns[bi] \in set_columns
                   THEN /\ all_elements' = elems
                        /\ skipped_count' = skipped_count
                        /\ td_ret' = td_ret
                        /\ IF elems = <<>>
                           THEN /\ li' = li + 1
                                /\ pcD' = "lang"
                                /\ UNCHANGED <<pcV, tv_values, unit, sent, called>>
                           ELSE /\ li' = li
                                /\ pcD' = "set_call"
                                /\ pcV' = "start"
                                /\ tv_values' = elems
                                /\ unit' = Cell(0, target_col)
                                /\ sent' = FALSE
                                /\ called' = called \cup
                                      {Cell(rows[k], target_col) : k \in 1..Len(rows)}
                   ELSE /\ li' = li
                        /\ pcD' = "row"
                        /\ UNCHANGED <<all_elements, skipped_count, pcV, tv_values,
                                       unit, sent, called, td_ret>>
    /\ UNCHANGED <<entry, valVars, cfgVars, fnVars, pfVars, trace, failures, pcB, tb_texts, max_retries, attempt,
                   tb_ret, pcT, tt_texts, batch_size, i, all_translations, tt_ret,
                   valid_values, translations, vi, preprocessed_text,
                   processed_text, extracted, json_placeholders, ji, tv_ret,
                   log, short, steps, df, df_translated, set_columns, exclude_columns,
                   base_columns, lang_columns, set_translations,
                   translation_count, run, first_in, first_out,
                   requested, writes>>

\* lines 335-343: the next row of a regular field goes to translate_values
TD_Row ==
    /\ pcD = "row"
    /\ IF ri > Len(rows_to_translate)
       THEN /\ li' = li + 1
            /\ pcD' = "lang"
            /\ UNCHANGED <<pcV, tv_values, unit, sent, called>>
       ELSE LET idx == rows_to_translate[ri]
                value == At(df, idx, ColOfLang(lang_columns, SourceLang))
            IN  /\ pcD' = "row_call"
                /\ pcV' = "start"
                /\ tv_values' = <<Str(PyStr(value))>>
                /\ unit' = Cell(idx, lang_columns[li].col)
                /\ sent' = FALSE
                /\ called' = called \cup {Cell(idx, lang_columns[li].col)}
                /\ li' = li
    /\ UNCHANGED <<entry, valVars, cfgVars, fnVars, pfVars, trace, failures, pcB, tb_texts, max_retries, attempt,
                   tb_ret, pcT, tt_texts, batch_size, i, all_translations, tt_ret,
                   valid_values, translations, vi, preprocessed_text,
                   processed_text, extracted, json_placeholders, ji, tv_ret,
                   log, short, steps, df, df_translated, set_columns, exclude_columns,
                   base_columns, bi, lang_columns, rows_to_translate, ri,
                   all_elements, set_translations, translation_count,
                   skipped_count, td_ret, run, first_in, first_out,
                   requested, writes>>

\* variant: the translated text is written without the cast of lines 348-351
TD_AfterRow_NoCast ==
    /\ pcD = "row_call"
    /\ pcV = "done"
    /\ pcV' = "idle"
    /\ LET idx == rows_to_translate[ri]
           target_col == lang_columns[li].col
           translated_value == tv_ret.val[1]
       IN  /\ translation_count' = translation_count + 1
           /\ log' = log
           /\ df_translated' = SetAt(df_translated, idx, target_col, translated_value)
           /\ writes' = [writes EXCEPT ![Cell(idx, target_col)] =
                            IF @ < 2 THEN @ + 1 ELSE @]
           /\ requested' = IF sent THEN requested \cup {Cell(idx, target_col)}
                           ELSE requested
    /\ save_progress(df_translated', translation_count')
    /\ ri' = ri + 1
    /\ pcD' = "row"
    /\ UNCHANGED <<entry, valVars, cfgVars, fnVars, svcVars, tv_values, valid_values, translations, vi,
                   preprocessed_text, processed_text, extracted,
                   json_placeholders, ji, tv_ret, short, steps, unit,
                   df, set_columns, exclude_columns, base_columns, bi,
                   lang_columns, li, rows_to_translate, all_elements,
                   set_translations, skipped_count, td_ret, run, first_in,
                   first_out, called>>

\* variant: the cell is also written to the table that was passed in
TD_AfterRow_InPlace ==
    /\ pcD = "row_call"
    /\ pcV = "done"
    /\ pcV' = "idle"
    /\ LET idx == rows_to_translate[ri]
           target_col == lang_columns[li].col
           source_dtype == Col(df, ColOfLang(lang_columns, SourceLang)).dtype
           translated == tv_ret.val[1]
           castable == is_numeric_dtype(source_dtype) /\ CastOk(source_dtype, translated)
           translated_value ==
               IF castable THEN Cast(source_dtype, translated) ELSE translated
       IN  /\ translation_count' = translation_count + 1
           /\ log' = IF is_numeric_dtype(source_dtype) /\ ~ castable
                     THEN log \cup {DFLog(352, Cell(idx, target_col))}
                     ELSE log
           /\ df_translated' = SetAt(df_translated, idx, target_col, translated_value)
           /\ df' = SetAt(df, idx, target_col, translated_value)
           /\ writes' = [writes EXCEPT ![Cell(idx, target_col)] =
                            IF @ < 2 THEN @ + 1 ELSE @]
           /\ requested' = IF sent THEN requested \cup {Cell(idx, target_col)}
                           ELSE requested
    /\ save_progress(df_translated', translation_count')
    /\ ri' = ri + 1
    /\ pcD' = "row"
    /\ UNCHANGED <<entry, valVars, cfgVars, fnVars, svcVars, tv_values, valid_values, translations, vi,
                   preprocessed_text, processed_text, extracted,
                   json_placeholders, ji, tv_ret, short, steps, unit,
                   set_columns, exclude_columns, base_columns, bi,
                   lang_columns, li, rows_to_translate, all_elements,
                   set_translations, skipped_count, td_ret, run, first_in,
                   first_out, called>>

\* lines 344-356: cast back, write the cell
TD_AfterRow ==
    /\ pcD = "row_call"
    /\ pcV = "done"
    /\ pcV' = "idle"
    /\ LET idx == rows_to_translate[ri]
           target_col == lang_columns[li].col
           source_dtype == Col(df, ColOfLang(lang_columns, SourceLang)).dtype
           translated == tv_ret.val[1]
           castable == is_numeric_dtype(source_dtype) /\ CastOk(source_dtype, translated)
           translated_value ==
               IF castable THEN Cast(source_dtype, translated) ELSE translated
       IN  /\ translation_count' = translation_count + 1
           /\ log' = IF is_numeric_dtype(source_dtype) /\ ~ castable
                     THEN log \cup {DFLog(352, Cell(idx, target_col))}
                     ELSE log
           /\ df_translated' = SetAt(df_translated, idx, target_col, translated_value)
           /\ writes' = [writes EXCEPT ![Cell(idx, target_col)] =
                            IF @ < 2 THEN @ + 1 ELSE @]
           /\ requested' = IF sent THEN requested \cup {Cell(idx, target_col)}
                           ELSE requested
    /\ save_progress(df_translated', translation_count')
    /\ ri' = ri + 1
    /\ pcD' = "row"
    /\ UNCHANGED <<entry, valVars, cfgVars, fnVars, svcVars, tv_values, valid_values, translations, vi,
                   preprocessed_text, processed_text, extracted,
                   json_placeholders, ji, tv_ret, short, steps, unit,
                   df, set_columns, exclude_columns, base_columns, bi,
                   lang_columns, li, rows_to_translate, all_elements,
                   set_translations, skipped_count, td_ret, run, first_in,
                   first_out, called>>

\* lines 306-311: the translations of the elements come back
TD_AfterSet ==
    /\ pcD = "set_call"
    /\ pcV = "done"
    /\ pcV' = "idle"
    /\ set_translations' = tv_ret.val
    /\ translation_count' = translation_count + Len(all_elements)
    /\ requested' =
          IF sent
          THEN requested \cup {Cell(rows_to_translate[k], lang_columns[li].col) :
                                  k \in 1..Len(rows_to_translate)}
          ELSE requested
    /\ ri' = 1
    /\ pcD' = "set_row"
    /\ UNCHANGED <<entry, valVars, cfgVars, fnVars, pfVars, svcVars, tv_values, valid_values, translations, vi,
                   preprocessed_text, processed_text, extracted,
                   json_placeholders, ji, tv_ret, log, short, steps, unit,
                   df, df_translated, set_columns, exclude_columns, base_columns,
                   bi, lang_columns, li, rows_to_translate, all_elements,
                   skipped_count, td_ret, run, first_in, first_out,
                   called, writes>>

\* lines 314-324: rebuild one set value from the translated elements
TD_SetRow ==
    /\ pcD = "set_row"
    /\ IF ri > Len(rows_to_translate)
       THEN /\ li' = li + 1
            /\ pcD' = "lang"
            /\ UNCHANGED <<ri, df_translated, writes, td_ret, pfVars>>
       ELSE LET idx == rows_to_translate[ri]
                target_col == lang_columns[li].col
                parts == Split(PyStr(At(df, idx, ColOfLang(lang_columns, SourceLang))),
                               SetSeparator)
                elems == [k \in 1..Len(parts) |-> Str(Strip(parts[k]))]
            IN  IF \A k \in 1..Len(elems) : IndexOk(all_elements, elems[k])
                THEN /\ df_translated' =
                          SetAt(df_translated, idx, target_col,
                                Str(Join([k \in 1..Len(elems) |->
                                            PyStr(set_translations[
                                                Index(all_elements, elems[k])])],
                                         SetSeparator)))
                     /\ writes' = [writes EXCEPT ![Cell(idx, target_col)] =
                                      IF @ < 2 THEN @ + 1 ELSE @]
                     /\ save_progress(df_translated', translation_count)
                     /\ ri' = ri + 1
                     /\ UNCHANGED <<li, pcD, td_ret>>
                ELSE /\ pcD' = "done"
                     /\ td_ret' = Raise("ValueError")
                     /\ UNCHANGED <<li, ri, df_translated, writes, pfVars>>
    /\ UNCHANGED <<entry, valVars, cfgVars, fnVars, svcVars, tvVars, unit, df, set_columns, exclude_columns,
                   base_columns, bi, lang_columns, rows_to_translate,
                   all_elements, set_translations, translation_count,
                   skipped_count, run, first_in, first_out, requested, called>>

\* the table a first run returned is translated again with the same arguments
TD_Rerun ==
    /\ pcD = "done"
    /\ run = 1
    /\ td_ret = ReturnTable
    /\ run' = 2
    /\ first_in' = df
    /\ first_out' = df_translated
    /\ df' = df_translated
    /\ pcD' = "start"
    /\ td_ret' = NoTable
    /\ requested' = {}
    /\ called' = {}
    /\ writes' = [c \in DOMAIN writes |-> 0]
    /\ UNCHANGED <<entry, valVars, cfgVars, fnVars, pfVars, svcVars, tvVars, unit, df_translated, set_columns,
                   exclude_columns, base_columns, bi, lang_columns, li,
                   rows_to_translate, ri, all_elements, set_translations,
                   translation_count, skipped_count>>

translate_dataframe ==
    TD_Start \/ TD_Group \/ TD_Lang \/ TD_Row \/ TD_AfterRow \/ TD_AfterSet
        \/ TD_SetRow

\* ----------------------------------------------------------- process_file
\* lines 383-406: read the file, reset the counters, call translate_dataframe
\* with save_callback=save_progress if save_interval else None
PF_Start ==
    /\ pcP = "start"
    /\ pf_translation_count' = 0
    /\ last_save' = 0
    /\ save_callback' = (save_interval # 0)
    /\ pcD' = "start"
    /\ pcP' = "call"
    /\ UNCHANGED <<entry, valVars, cfgVars, fnVars, svcVars, tvVars, unit, df, df_translated, set_columns,
                   exclude_columns, base_columns, bi, lang_columns, li,
                   rows_to_translate, ri, all_elements, set_translations,
                   translation_count, skipped_count, td_ret, run, first_in,
                   first_out, requested, called, writes, save_interval, saved>>

\* lines 409-411: the final save; an exception of translate_dataframe
\* propagates and skips it
PF_Finish ==
    /\ pcP = "call"
    /\ pcD = "done"
    /\ pcD' = "idle"
    /\ IF td_ret = ReturnTable
       THEN /\ saved' = Append(saved, [table |-> df_translated,
                                        units |-> pf_translation_count,
                                        final |-> TRUE])
            /\ pcP' = "done"
       ELSE /\ saved' = saved
            /\ pcP' = "raised"
    /\ UNCHANGED <<entry, valVars, cfgVars, fnVars, svcVars, tvVars, unit, df, df_translated, set_columns,
                   exclude_columns, base_columns, bi, lang_columns, li,
                   rows_to_translate, ri, all_elements, set_translations,
                   translation_count, skipped_count, td_ret, run, first_in,
                   first_out, requested, called, writes, save_callback,
                   save_interval, pf_translation_count, last_save>>

process_file == PF_Start \/ PF_Finish

\* ------------------------------------------------------------- validation
\* ValidationResult: severity, what was checked, the line it is reported for
Res(sev, check, line) == [severity |-> sev, check |-> check, line |-> line]
IsError(r) == r.severity = "ERROR"
HasError(rs) == \E k \in 1..Len(rs) : IsError(rs[k])

LowerChar(c) == IF c = "A" THEN "a" ELSE c
Lower(chars) == [k \in 1..Len(chars) |-> LowerChar(chars[k])]

\* FileValidator.__validate_headers: the first failing check is reported
validate_headers(headers) ==
    IF headers = <<>>
    THEN <<Res("ERROR", "no_headers", 0)>>
    ELSE IF \E k \in 1..Len(headers) : Strip(headers[k]) = <<>>
    THEN <<Res("ERROR", "empty_header", 1)>>
    ELSE IF \E j, k \in 1..Len(headers) :
               j # k /\ Lower(Strip(headers[j])) = Lower(Strip(headers[k]))
    THEN <<Res("ERROR", "duplicate_header", 1)>>
    ELSE IF \E k \in 1..Len(headers) : \E c \in 1..Len(headers[k]) : headers[k][c] = SP
    THEN <<Res("ERROR", "header_space", 1)>>
    ELSE <<>>

\* FileValidator.__validate_field_consistency over the rows the reader yields
validate_field_consistency(rows) ==
    IF rows = <<>>
    THEN <<Res("ERROR", "empty_file", 0)>>
    ELSE IF validate_headers(rows[1]) # <<>>
    THEN validate_headers(rows[1])
    ELSE LET bad == {k \in 2..Len(rows) : Len(rows[k]) # Len(rows[1])}
         IN  IF bad = {} THEN <<>>
             ELSE <<Res("ERROR", "field_count",
                        CHOOSE k \in bad : \A j \in bad : k <= j)>>

\* FileValidator.validate: the result lists it can produce for a file; whether
\* an encoding is detected for a file without content is left open
FileValidator_validate(file) ==
    IF ~ file.exists
    THEN {<<Res("ERROR", "missing", 0)>>}
    ELSE IF file.rows = <<>>
    THEN {<<>>, validate_field_consistency(file.rows)}
    ELSE {validate_field_consistency(file.rows)}

\* DataFrameValidator.validate and FieldValidator.validate, reduced to whether
\* the table has a finding
DataFrameValidator_validate(table) ==
    IF table = "df_bad" THEN <<Res("ERROR", "dataframe", 0)>> ELSE <<>>
FieldValidator_validate(table) ==
    IF table = "df_bad" THEN <<Res("WARNING", "field", 0)>> ELSE <<>>

\* BaseValidator.clear_results and add_result: the validator gets a new list
\* and fills it; the engine's list is extended with its elements
RunValidator(name, rs) ==
    /\ lists' = [Append(lists, rs) EXCEPT ![_results] = @ \o rs]
    /\ validator_results' = [validator_results EXCEPT ![name] = Len(lists) + 1]
    /\ ran' = Append(ran, [step |-> name, results |-> rs])

\* return self._results
ReturnResults ==
    /\ returned' = Append(returned, [id |-> _results, contents |-> lists'[_results]])
    /\ pcVal' = "idle"

\* variant: the engine keeps its list from call to call
VF_Call_NoReset(file) ==
    /\ pcVal = "idle"
    /\ calls < MaxCalls
    /\ calls' = calls + 1
    /\ file_path' = file
    /\ ran' = <<[step |-> "validate_file", results |-> <<>>]>>
    /\ pcVal' = "vf_file"
    /\ UNCHANGED <<file_validator, dataframe_validator, field_validator,
                   require_header, validator_results, self_df, df_arg, returned,
                   lists, _results>>
    /\ UNCHANGED <<entry, cfgVars, fnVars, svcVars, engVars>>

\* validate_file, line 62
VF_Call(file) ==
    /\ pcVal = "idle"
    /\ calls < MaxCalls
    /\ calls' = calls + 1
    /\ file_path' = file
    /\ lists' = Append(lists, <<>>)
    /\ _results' = Len(lists) + 1
    /\ ran' = <<[step |-> "validate_file", results |-> <<>>]>>
    /\ pcVal' = "vf_file"
    /\ UNCHANGED <<file_validator, dataframe_validator, field_validator,
                   require_header, validator_results, self_df, df_arg, returned>>
    /\ UNCHANGED <<entry, cfgVars, fnVars, svcVars, engVars>>

\* variant: the pipeline goes on after an ERROR of the file validator
VF_File_NoStop ==
    /\ pcVal = "vf_file"
    /\ IF file_validator
       THEN \E rs \in FileValidator_validate(file_path) :
               /\ RunValidator("file", rs)
               /\ pcVal' = "vf_read"
               /\ UNCHANGED returned
       ELSE /\ pcVal' = "vf_read"
            /\ UNCHANGED <<lists, validator_results, ran, returned>>
    /\ UNCHANGED <<file_validator, dataframe_validator, field_validator,
                   require_header, _results, self_df, file_path, df_arg, calls>>
    /\ UNCHANGED <<entry, cfgVars, fnVars, svcVars, engVars>>

\* lines 65-71: the file validator; an ERROR ends the call
VF_File ==
    /\ pcVal = "vf_file"
    /\ IF file_validator
       THEN \E rs \in FileValidator_validate(file_path) :
               /\ RunValidator("file", rs)
               /\ IF HasError(rs)
                  THEN ReturnResults
                  ELSE /\ pcVal' = "vf_read"
                       /\ UNCHANGED returned
       ELSE /\ pcVal' = "vf_read"
            /\ UNCHANGED <<lists, validator_results, ran, returned>>
    /\ UNCHANGED <<file_validator, dataframe_validator, field_validator,
                   require_header, _results, self_df, file_path, df_arg, calls>>
    /\ UNCHANGED <<entry, cfgVars, fnVars, svcVars, engVars>>

\* lines 74-84: pd.read_csv when a later validator needs the table
VF_Read ==
    /\ pcVal = "vf_read"
    /\ IF dataframe_validator \/ field_validator
       THEN IF file_path.exists /\ file_path.readable
            THEN /\ self_df' = file_path.df
                 /\ ran' = Append(ran, [step |-> "read", results |-> <<>>])
                 /\ pcVal' = "vf_dataframe"
                 /\ UNCHANGED <<lists, returned>>
            ELSE /\ lists' = [lists EXCEPT ![_results] =
                                 Append(@, Res("ERROR", "read_csv", 0))]
                 /\ ran' = Append(ran, [step |-> "read",
                                        results |-> <<Res("ERROR", "read_csv", 0)>>])
                 /\ ReturnResults
                 /\ UNCHANGED self_df
       ELSE /\ lists' = lists
            /\ ReturnResults
            /\ UNCHANGED <<self_df, ran>>
    /\ UNCHANGED <<file_validator, dataframe_validator, field_validator,
                   require_header, _results, validator_results, file_path,
                   df_arg, calls>>
    /\ UNCHANGED <<entry, cfgVars, fnVars, svcVars, engVars>>

\* lines 87-89
VF_DataFrame ==
    /\ pcVal = "vf_dataframe"
    /\ IF dataframe_validator
       THEN RunValidator("dataframe", DataFrameValidator_validate(self_df))
       ELSE UNCHANGED <<lists, validator_results, ran>>
    /\ pcVal' = "vf_field"
    /\ UNCHANGED <<file_validator, dataframe_validator, field_validator,
                   require_header, _results, self_df, file_path, df_arg, calls,
                   returned>>
    /\ UNCHANGED <<entry, cfgVars, fnVars, svcVars, engVars>>

\* lines 92-96
VF_Field ==
    /\ pcVal = "vf_field"
    /\ IF field_validator
       THEN RunValidator("field", FieldValidator_validate(self_df))
       ELSE UNCHANGED <<lists, validator_results, ran>>
    /\ ReturnResults
    /\ UNCHANGED <<file_validator, dataframe_validator, field_validator,
                   require_header, _results, self_df, file_path, df_arg, calls>>
    /\ UNCHANGED <<entry, cfgVars, fnVars, svcVars, engVars>>

\* validate_dataframe, line 111
VD_Call(table) ==
    /\ pcVal = "idle"
    /\ calls < MaxCalls
    /\ calls' = calls + 1
    /\ df_arg' = table
    /\ lists' = Append(lists, <<>>)
    /\ _results' = Len(lists) + 1
    /\ ran' = <<[step |-> "validate_dataframe", results |-> <<>>]>>
    /\ pcVal' = "vd_dataframe"
    /\ UNCHANGED <<file_validator, dataframe_validator, field_validator,
                   require_header, validator_results, self_df, file_path, returned>>
    /\ UNCHANGED <<entry, cfgVars, fnVars, svcVars, engVars>>

\* self.df if df is None else df
Table == IF df_arg = "None" THEN self_df ELSE df_arg

\* self.df does not exist before a file is read: the expression raises
SelfDfMissing == df_arg = "None" /\ self_df = "unset"

AttributeError ==
    /\ ran' = Append(ran, [step |-> "AttributeError", results |-> <<>>])
    /\ pcVal' = "idle"
    /\ UNCHANGED <<lists, validator_results, returned>>

\* lines 114-116
VD_DataFrame ==
    /\ pcVal = "vd_dataframe"
    /\ IF dataframe_validator
       THEN IF SelfDfMissing
            THEN AttributeError
            ELSE /\ RunValidator("dataframe", DataFrameValidator_validate(Table))
                 /\ pcVal' = "vd_field"
                 /\ UNCHANGED returned
       ELSE /\ pcVal' = "vd_field"
            /\ UNCHANGED <<lists, validator_results, ran, returned>>
    /\ UNCHANGED <<file_validator, dataframe_validator, field_validator,
                   require_header, _results, self_df, file_path, df_arg, calls>>
    /\ UNCHANGED <<entry, cfgVars, fnVars, svcVars, engVars>>

\* lines 119-123
VD_Field ==
    /\ pcVal = "vd_field"
    /\ IF field_validator
       THEN IF SelfDfMissing
            THEN AttributeError
            ELSE /\ RunValidator("field", FieldValidator_validate(Table))
                 /\ ReturnResults
       ELSE /\ lists' = lists
            /\ ReturnResults
            /\ UNCHANGED <<validator_results, ran>>
    /\ UNCHANGED <<file_validator, dataframe_validator, field_validator,
                   require_header, _results, self_df, file_path, df_arg, calls>>
    /\ UNCHANGED <<entry, cfgVars, fnVars, svcVars, engVars>>

\* ------------------------------------------------------- the constructors
Missing(v) == v = PyNone

\* TranslationService.__init__, lines 19-54: every check raises ValueError
ServiceSettingsOk ==
    /\ env.dotenv
    /\ ~ Missing(env.OPENAI_API_KEY)
    /\ ~ Missing(env.OPENAI_MODEL)
    /\ ~ Missing(env.MAX_TOKENS) /\ PyIntOk(env.MAX_TOKENS.s)
    /\ ~ Missing(env.TEMPERATURE) /\ PyFloatOk(env.TEMPERATURE.s)
    /\ ~ Missing(env.BATCH_SIZE) /\ PyIntOk(env.BATCH_SIZE.s)

TS_Init ==
    /\ pcS = "start"
    /\ IF ServiceSettingsOk
       THEN /\ batch_size' = PyInt(env.BATCH_SIZE.s)
            /\ pcS' = "constructed"
       ELSE /\ batch_size' = batch_size
            /\ pcS' = "raised"
    /\ UNCHANGED <<entry, valVars, env, pcE, remote, fnVars, trace, failures, sent, pcB, tb_texts,
                   max_retries, attempt, tb_ret, pcT, tt_texts, i,
                   all_translations, tt_ret, engVars>>

\* TranslationEngine.__init__, lines 25-30: load_dotenv, then the service
TE_Init ==
    /\ pcE = "start"
    /\ IF env.dotenv
       THEN /\ pcS' = "start"
            /\ pcE' = "service"
       ELSE /\ pcS' = pcS
            /\ pcE' = "raised"
    /\ UNCHANGED <<entry, valVars, env, remote, fnVars, svcVars, engVars>>

\* TranslationEngine.__init__, lines 30-54: an exception of the service's
\* constructor propagates; then the engine's own settings
TE_Settings ==
    /\ pcE = "service"
    /\ pcS \in {"constructed", "raised"}
    /\ pcE' = IF /\ pcS = "constructed"
                 /\ ~ Missing(env.SET_SEPARATOR)
                 /\ ~ Missing(env.OUTPUT_SUFFIX)
                 /\ ~ Missing(env.LANGUAGE_SEPARATOR)
                 /\ ~ Missing(env.FIELD_LANGUAGE_SEPARATOR)
              THEN "constructed" ELSE "raised"
    /\ UNCHANGED <<entry, valVars, env, pcS, remote, fnVars, svcVars, engVars>>

\* lines 366-371: process_file(input_path, output_path, set_columns, None,
\* save_interval) is called on a constructed engine
PF_Call ==
    /\ pcE = "constructed"
    /\ pcP = "idle"
    /\ pcP' = "start"
    /\ set_columns' \in SUBSET {"g"}
    /\ save_interval' \in 0..MaxSaveInterval
    /\ UNCHANGED <<entry, valVars, cfgVars, fnVars, svcVars, tvVars, unit, save_callback,
                   pf_translation_count, last_save, saved,
                   pcD, df, df_translated,
                   exclude_columns, base_columns, bi, lang_columns, li,
                   rows_to_translate, ri, all_elements, set_translations,
                   translation_count, skipped_count, td_ret, run, first_in,
                   first_out, requested, called, writes>>

constructors == TS_Init \/ TE_Init \/ TE_Settings

\* ---------------------------------------------------------- specifications
FnIdle == pcF = "idle" /\ arg = <<>> /\ result = <<>>

\* no validation engine in use
ValidationIdle ==
    /\ file_validator = FALSE /\ dataframe_validator = FALSE
    /\ field_validator = FALSE /\ require_header = TRUE
    /\ lists = <<>> /\ _results = 0 /\ validator_results = <<>>
    /\ self_df = "unset" /\ pcVal = "off" /\ file_path = <<>> /\ df_arg = "None"
    /\ calls = 0 /\ returned = <<>> /\ ran = <<>>

\* the objects were constructed from a usable environment
Constructed == env = EnvOf(batch_size) /\ pcS = "constructed" /\ pcE = "constructed"

ValuesIdle ==
    /\ pcV = "idle" /\ tv_values = <<>> /\ valid_values = <<>>
    /\ translations = <<>> /\ vi = 1
    /\ preprocessed_text = <<>> /\ processed_text = <<>> /\ extracted = <<>>
    /\ json_placeholders = <<>> /\ ji = 1 /\ tv_ret = NoReturn
    /\ log = {} /\ short = {} /\ steps = <<>>

ColumnNames == <<"id", "g.en", "g.fr">>
AllCells == {Cell(r, ColumnNames[k]) : r \in 1..NRows, k \in 1..Len(ColumnNames)}

FileIdle ==
    /\ Constructed
    /\ pcP = "idle" /\ save_interval = 0 /\ pf_translation_count = 0
    /\ last_save = 0 /\ saved = <<>>

FrameIdle ==
    /\ FileIdle /\ save_callback = FALSE
    /\ pcD = "idle" /\ df = <<>> /\ df_translated = <<>>
    /\ set_columns = {} /\ exclude_columns = {}
    /\ base_columns = <<>> /\ bi = 1 /\ lang_columns = <<>> /\ li = 1
    /\ rows_to_translate = <<>> /\ ri = 1
    /\ all_elements = <<>> /\ set_translations = <<>>
    /\ translation_count = 0 /\ skipped_count = 0 /\ td_ret = NoTable
    /\ run = 1 /\ first_in = <<>> /\ first_out = <<>>
    /\ requested = {} /\ called = {} /\ writes = [c \in AllCells |-> 0]

BatchIdle ==
    /\ pcB = "idle" /\ tb_texts = <<>> /\ max_retries = DefaultMaxRetries
    /\ attempt = 0 /\ tb_ret = NoReturn

TextsIdle ==
    /\ pcT = "idle" /\ tt_texts = <<>>
    /\ i = 0 /\ all_translations = <<>> /\ tt_ret = NoReturn

\* a direct call translate_batch(texts, src, tgt, max_retries)
InitBatch ==
    /\ entry = "translate_batch"
    /\ FnIdle /\ ValidationIdle /\ remote = "any"
    /\ trace = <<>> /\ failures = 0 /\ sent = FALSE
    /\ pcB = "start"
    /\ tb_texts \in TextLists
    /\ max_retries \in 1..MaxRetriesArg
    /\ attempt = 0 /\ tb_ret = NoReturn
    /\ TextsIdle /\ batch_size = 1
    /\ ValuesIdle /\ unit = NoUnit /\ FrameIdle

SpecBatch == InitBatch /\ [][translate_batch]_vars

\* a call translate_batch on text units that may contain line breaks; the
\* remote is arbitrary or echoes the prompt line by line
LinePool == {<<"a">>, <<"a", NL, "b">>, <<NL, "a">>}
LineLists == SeqsUpTo(LinePool, MaxTexts)

InitLines ==
    /\ entry = "translate_batch"
    /\ FnIdle /\ ValidationIdle /\ remote \in {"any", "identity"}
    /\ trace = <<>> /\ failures = 0 /\ sent = FALSE
    /\ pcB = "start"
    /\ tb_texts \in LineLists
    /\ max_retries \in 1..MaxRetriesArg
    /\ attempt = 0 /\ tb_ret = NoReturn
    /\ TextsIdle /\ batch_size = 1
    /\ ValuesIdle /\ unit = NoUnit /\ FrameIdle

SpecLines == InitLines /\ [][translate_batch]_vars

\* a call translate_texts(texts, src, tgt) on a service built with BATCH_SIZE
InitTexts ==
    /\ entry = "translate_texts"
    /\ FnIdle /\ ValidationIdle /\ remote = "any"
    /\ trace = <<>> /\ failures = 0 /\ sent = FALSE
    /\ BatchIdle
    /\ pcT = "start"
    /\ tt_texts \in TextLists
    /\ batch_size \in BatchSizes
    /\ i = 0 /\ all_translations = <<>> /\ tt_ret = NoReturn
    /\ ValuesIdle /\ unit = NoUnit /\ FrameIdle

NextTexts == translate_texts \/ translate_batch

SpecTexts == InitTexts /\ [][NextTexts]_vars

\* a call translate_values(values, src, tgt) on an engine
JsonText == Dumps(JDict(<<KV(<<"a">>, JStr(<<"b">>))>>))
ValuePool ==
    {NaN, Str(<<"a">>), Str(<<SP, "a">>), Str(<<"b", SP>> \o JsonText)}
ValueLists == SeqsUpTo(ValuePool, MaxValues)

InitValues ==
    /\ entry = "translate_values"
    /\ FnIdle /\ ValidationIdle /\ remote = "any"
    /\ trace = <<>> /\ failures = 0 /\ sent = FALSE
    /\ BatchIdle
    /\ TextsIdle
    /\ batch_size \in BatchSizes
    /\ pcV = "start"
    /\ tv_values \in ValueLists
    /\ valid_values = <<>> /\ translations = <<>> /\ vi = 1
    /\ preprocessed_text = <<>> /\ processed_text = <<>> /\ extracted = <<>>
    /\ json_placeholders = <<>> /\ ji = 1 /\ tv_ret = NoReturn
    /\ log = {} /\ short = {} /\ steps = <<>>
    /\ unit = NoUnit /\ FrameIdle

NextValues == translate_values \/ translate_texts \/ translate_batch

SpecValues == InitValues /\ [][NextValues]_vars

\* a call translate_dataframe(df, set_columns, exclude_columns)
\* the first row ranges over every kind of cell, the others over plain ones
FirstCells ==
    {NaN, Str(<<>>), Str(<<"a">>), Str(<<SP>>), Str(<<"a", ",", "b">>),
     Str(<<"b", SP>> \o JsonText)}
OtherCells == {NaN, Str(<<"a">>)}
SourceColumns ==
    {Column("g.en", "object", c) :
        c \in {f \in [1..NRows -> FirstCells \cup OtherCells] :
                  \A r \in 2..NRows : f[r] \in OtherCells}}
      \cup {Column("g.en", "float64", c) : c \in [1..NRows -> {NaN, FloatVal(15)}]}
      \cup {Column("g.en", "int64", c) : c \in [1..NRows -> {IntVal(1)}]}
TargetColumns ==
    {Column("g.fr", "object", c) : c \in [1..NRows -> {NaN, Str(<<"y">>)}]}
      \cup {Column("g.fr", "float64", c) : c \in [1..NRows -> {NaN, FloatVal(25)}]}
IdColumn == Column("id", "int64", [r \in 1..NRows |-> IntVal(r)])
Tables == {<<IdColumn, sc, tc>> : sc \in SourceColumns, tc \in TargetColumns}

InitFrame ==
    /\ entry = "translate_dataframe"
    /\ FnIdle /\ ValidationIdle /\ remote = "any"
    /\ trace = <<>> /\ failures = 0 /\ sent = FALSE
    /\ BatchIdle
    /\ TextsIdle
    /\ batch_size = 1
    /\ ValuesIdle /\ unit = NoUnit
    /\ FileIdle /\ save_callback = FALSE
    /\ pcD = "start"
    /\ df \in Tables
    /\ df_translated = <<>>
    /\ set_columns \in SUBSET {"g"}
    /\ exclude_columns \in SUBSET {"g"}
    /\ base_columns = <<>> /\ bi = 1 /\ lang_columns = <<>> /\ li = 1
    /\ rows_to_translate = <<>> /\ ri = 1
    /\ all_elements = <<>> /\ set_translations = <<>>
    /\ translation_count = 0 /\ skipped_count = 0 /\ td_ret = NoTable
    /\ run = 1 /\ first_in = <<>> /\ first_out = <<>>
    /\ requested = {} /\ called = {} /\ writes = [c \in AllCells |-> 0]

NextFrame ==
    translate_dataframe \/ translate_values \/ translate_texts \/ translate_batch

SpecFrame == InitFrame /\ [][NextFrame]_vars

\* translate_dataframe, and then once more on the table it returned
NextRerun == NextFrame \/ TD_Rerun

SpecRerun == InitFrame /\ [][NextRerun]_vars

\* one table whose first source cell embeds a JSON object
JsonColumn(name) ==
    Column(name, "object",
           [r \in 1..NRows |-> IF r = 1 THEN Str(<<"b", SP>> \o JsonText) ELSE NaN])
EmptyColumn(name) == Column(name, "float64", [r \in 1..NRows |-> NaN])

\* a table with a second group that has no source-language column
GroupSourceColumns ==
    {Column("g.en", "object", c) : c \in [1..NRows -> {NaN, Str(<<"a">>)}]}
      \cup {Column("g.en", "int64", [r \in 1..NRows |-> IntVal(1)])}
OtherGroupColumns ==
    {Column("h.fr", "object", c) : c \in [1..NRows -> {NaN, Str(<<"y">>)}]}
GroupTables ==
    {<<IdColumn, sc, tc, hc>> :
        sc \in GroupSourceColumns, tc \in TargetColumns, hc \in OtherGroupColumns}
      \cup {<<IdColumn, JsonColumn("g.en"), EmptyColumn("g.fr"), EmptyColumn("h.fr")>>}
OtherGroupCells == {Cell(r, "h.fr") : r \in 1..NRows}

InitGroups ==
    /\ entry = "translate_dataframe"
    /\ FnIdle /\ ValidationIdle /\ remote = "any"
    /\ trace = <<>> /\ failures = 0 /\ sent = FALSE
    /\ BatchIdle
    /\ TextsIdle
    /\ batch_size = 1
    /\ ValuesIdle /\ unit = NoUnit
    /\ FileIdle /\ save_callback = FALSE
    /\ pcD = "start"
    /\ df \in GroupTables
    /\ df_translated = <<>>
    /\ set_columns \in SUBSET {"g", "h"}
    /\ exclude_columns = {}
    /\ base_columns = <<>> /\ bi = 1 /\ lang_columns = <<>> /\ li = 1
    /\ rows_to_translate = <<>> /\ ri = 1
    /\ all_elements = <<>> /\ set_translations = <<>>
    /\ translation_count = 0 /\ skipped_count = 0 /\ td_ret = NoTable
    /\ run = 1 /\ first_in = <<>> /\ first_out = <<>>
    /\ requested = {} /\ called = {}
    /\ writes = [c \in AllCells \cup OtherGroupCells |-> 0]

SpecGroups == InitGroups /\ [][NextFrame]_vars

\* a call process_file(input_path, output_path, set_columns, None, save_interval)
\* pd.read_csv infers object only for a column that holds a string
SaveIntervals == 0..MaxSaveInterval      \* 0 also stands for None
FileCells == {NaN, Str(<<"a">>), Str(<<"a", ",", "b">>)}
FileSourceColumns ==
    {Column("g.en", "object", c) : c \in [1..NRows -> FileCells] \ {[r \in 1..NRows |-> NaN]}}
      \cup {Column("g.en", "float64", [r \in 1..NRows |-> NaN])}
      \cup {Column("g.en", "int64", [r \in 1..NRows |-> IntVal(1)])}
FileTargetColumns ==
    {Column("g.fr", "object", c) :
        c \in [1..NRows -> {NaN, Str(<<"y">>)}] \ {[r \in 1..NRows |-> NaN]}}
      \cup {Column("g.fr", "float64", [r \in 1..NRows |-> NaN])}
FileTables ==
    {<<IdColumn, sc, tc>> : sc \in FileSourceColumns, tc \in FileTargetColumns}
      \cup {<<IdColumn, JsonColumn("g.en"), EmptyColumn("g.fr")>>}

InitFile ==
    /\ entry = "process_file"
    /\ FnIdle /\ ValidationIdle /\ remote = "any"
    /\ trace = <<>> /\ failures = 0 /\ sent = FALSE
    /\ BatchIdle
    /\ TextsIdle
    /\ batch_size = 1
    /\ ValuesIdle /\ unit = NoUnit
    /\ Constructed
    /\ pcP = "start"
    /\ save_interval \in SaveIntervals
    /\ save_callback = FALSE
    /\ pf_translation_count = 0 /\ last_save = 0 /\ saved = <<>>
    /\ pcD = "idle"
    /\ df \in FileTables
    /\ df_translated = <<>>
    /\ set_columns \in SUBSET {"g"}
    /\ exclude_columns = {}
    /\ base_columns = <<>> /\ bi = 1 /\ lang_columns = <<>> /\ li = 1
    /\ rows_to_translate = <<>> /\ ri = 1
    /\ all_elements = <<>> /\ set_translations = <<>>
    /\ translation_count = 0 /\ skipped_count = 0 /\ td_ret = NoTable
    /\ run = 1 /\ first_in = <<>> /\ first_out = <<>>
    /\ requested = {} /\ called = {} /\ writes = [c \in AllCells |-> 0]

NextFile == process_file \/ NextFrame

SpecFile == InitFile /\ [][NextFile]_vars

\* construction of a service or an engine from an arbitrary environment,
\* followed by process_file when an engine exists
TextSettings(ok) == {PyNone, Str(<<ok>>)}
Environments ==
    [dotenv : BOOLEAN,
     OPENAI_API_KEY : TextSettings("k"), OPENAI_MODEL : TextSettings("m"),
     MAX_TOKENS : {PyNone, Str(<<"1", ".", "5">>), Str(<<"5">>)},
     TEMPERATURE : {PyNone, Str(<<"x">>), Str(<<"0", ".", "5">>)},
     BATCH_SIZE : {PyNone, Str(<<"x">>), Str(<<"1">>)},
     SET_SEPARATOR : TextSettings(",") \cup {Str(<<>>)},
     OUTPUT_SUFFIX : TextSettings("_"),
     LANGUAGE_SEPARATOR : TextSettings("-") \cup {Str(<<>>)},
     FIELD_LANGUAGE_SEPARATOR : TextSettings(".")]
ConfigTables ==
    {<<IdColumn, JsonColumn("g.en"), EmptyColumn("g.fr")>>,
     <<IdColumn,
       Column("g.en", "object",
              [r \in 1..NRows |-> IF r = 1 THEN Str(<<"a", ",", "b">>) ELSE NaN]),
       EmptyColumn("g.fr")>>}

InitConfig ==
    /\ entry \in {"TranslationService", "TranslationEngine"}
    /\ FnIdle /\ ValidationIdle /\ remote = "any"
    /\ env \in Environments
    /\ pcS = (IF entry = "TranslationService" THEN "start" ELSE "idle")
    /\ pcE = (IF entry = "TranslationEngine" THEN "start" ELSE "idle")
    /\ trace = <<>> /\ failures = 0 /\ sent = FALSE
    /\ BatchIdle
    /\ TextsIdle
    /\ batch_size = 0
    /\ ValuesIdle /\ unit = NoUnit
    /\ pcP = "idle" /\ save_interval = 0 /\ pf_translation_count = 0
    /\ last_save = 0 /\ saved = <<>> /\ save_callback = FALSE
    /\ pcD = "idle"
    /\ df \in ConfigTables
    /\ df_translated = <<>>
    /\ set_columns = {}
    /\ exclude_columns = {}
    /\ base_columns = <<>> /\ bi = 1 /\ lang_columns = <<>> /\ li = 1
    /\ rows_to_translate = <<>> /\ ri = 1
    /\ all_elements = <<>> /\ set_translations = <<>>
    /\ translation_count = 0 /\ skipped_count = 0 /\ td_ret = NoTable
    /\ run = 1 /\ first_in = <<>> /\ first_out = <<>>
    /\ requested = {} /\ called = {} /\ writes = [c \in AllCells |-> 0]

NextConfig == constructors \/ PF_Call \/ NextFile

SpecConfig == InitConfig /\ [][NextConfig]_vars

\* a helper applied on its own: nothing else of the engine is running
EngineIdle ==
    /\ remote = "any" /\ ValidationIdle
    /\ trace = <<>> /\ failures = 0 /\ sent = FALSE
    /\ BatchIdle
    /\ TextsIdle /\ batch_size = 1
    /\ ValuesIdle /\ unit = NoUnit /\ FrameIdle

\* __should_translate_string(s) for strings and other JSON values
ShouldChars == {"a", SP, PHNames[1], JPHNames[1]}
ShouldInputs ==
    {JStr(q) : q \in SeqsUpTo(ShouldChars, MaxChars)}
      \cup {JNum(<<"1">>), JList(<<>>), JDict(<<>>)}

Apply_should_translate_string ==
    /\ pcF = "start"
    /\ result' = should_translate_string(arg)
    /\ pcF' = "done"
    /\ UNCHANGED <<entry, valVars, cfgVars, svcVars, engVars, arg>>

InitShould ==
    /\ entry = "should_translate_string"
    /\ pcF = "start"
    /\ arg \in ShouldInputs
    /\ result = <<>>
    /\ EngineIdle

SpecShould == InitShould /\ [][Apply_should_translate_string]_vars

\* lines 177-199 on their own: a parsed JSON object, the list translate_texts
\* returned for its leaves, and the JSON configuration of the cell's column
JsonKeys == {<<"a">>, <<"b">>, <<PHNames[1]>>}
JsonValues ==
    {JStr(<<"a">>), JStr(<<>>), JStr(<<PHNames[1]>>), JStr(<<"a", SP, PHNames[1]>>),
     JNum(<<"1">>), JList(<<JStr(<<"b">>)>>)}
JsonKeySeqs ==
    {q \in SeqsUpTo(JsonKeys, MaxKeys) : \A j, k \in 1..Len(q) : j # k => q[j] # q[k]}
JsonObjects ==
    UNION {{JDict([k \in 1..Len(ks) |-> KV(ks[k], vs[k])]) :
               vs \in [1..Len(ks) -> JsonValues]} : ks \in JsonKeySeqs}
LeafTranslations == {<<"x">>, <<"y">>}
JsonInputs ==
    {[json_data |-> o, translated_strings |-> t, keys |-> ck, values |-> cv] :
        o \in JsonObjects,
        t \in SeqsUpTo(LeafTranslations, 2 * MaxKeys),
        ck \in BOOLEAN, cv \in BOOLEAN}

Apply_translate_json ==
    /\ pcF = "start"
    /\ LET json_data == arg.json_data
           to_translate == collect_json_strings(json_data)
           translations_map == ZipPairs(to_translate, arg.translated_strings)
           translated_json ==
               IF to_translate = <<>> THEN json_data
               ELSE replace_json_strings(json_data, translations_map)
       IN  result' = [to_translate |-> to_translate,
                      translated_json |-> translated_json,
                      translated_json_str |-> Dumps(translated_json)]
    /\ pcF' = "done"
    /\ UNCHANGED <<entry, valVars, cfgVars, svcVars, engVars, arg>>

InitJson ==
    /\ entry = "replace_json_strings"
    /\ pcF = "start"
    /\ arg \in JsonInputs
    /\ Len(arg.translated_strings) <= Len(collect_json_strings(arg.json_data))
    /\ result = <<>>
    /\ EngineIdle

SpecJson == InitJson /\ [][Apply_translate_json]_vars

\* translate_values against an identity translator
ProtectedText == <<"a", SP, "U", "T", "M">>
IdentityPool ==
    {Str(ProtectedText), Str(<<SP>> \o ProtectedText),
     Str(<<"U", NL, "T", "M">>), Str(<<"b", SP>> \o JsonText)}
IdentityLists == SeqsUpTo(IdentityPool, MaxValues)

InitIdentity ==
    /\ entry = "translate_values"
    /\ FnIdle /\ ValidationIdle /\ remote = "identity"
    /\ trace = <<>> /\ failures = 0 /\ sent = FALSE
    /\ BatchIdle
    /\ TextsIdle
    /\ batch_size = 1
    /\ pcV = "start"
    /\ tv_values \in IdentityLists
    /\ valid_values = <<>> /\ translations = <<>> /\ vi = 1
    /\ preprocessed_text = <<>> /\ processed_text = <<>> /\ extracted = <<>>
    /\ json_placeholders = <<>> /\ ji = 1 /\ tv_ret = NoReturn
    /\ log = {} /\ short = {} /\ steps = <<>>
    /\ unit = NoUnit /\ FrameIdle

SpecIdentity == InitIdentity /\ [][NextValues]_vars

\* calls of validate_file and validate_dataframe on one ValidationEngine
CsvFile(rows, table) ==
    [exists |-> TRUE, rows |-> rows, readable |-> TRUE, df |-> table]
GoodRows == <<<<<<"a">>, <<"b">>>>, <<<<"a">>, <<"b">>>>>>
FilePool ==
    {[CsvFile(<<>>, "df_ok") EXCEPT !.exists = FALSE],
     CsvFile(<<>>, "df_ok"),
     CsvFile(GoodRows, "df_ok"),
     CsvFile(GoodRows, "df_bad"),
     [CsvFile(GoodRows, "df_ok") EXCEPT !.readable = FALSE],
     CsvFile(<<<<<<"a">>, <<>>>>, <<<<"a">>>>>>, "df_ok"),
     CsvFile(<<<<<<"a">>, <<"A">>>>, <<<<"a">>>>>>, "df_ok"),
     CsvFile(<<<<<<"a", SP, "b">>, <<"b">>>>, <<<<"a">>>>>>, "df_ok"),
     CsvFile(<<<<<<"a">>, <<"b">>>>, <<<<"a">>>>>>, "df_ok"),
     CsvFile(<<<<>>, <<<<"a">>>>>>, "df_ok")}
TableArgs == {"None", "df_ok", "df_bad"}

InitValidation ==
    /\ entry = "ValidationEngine"
    /\ FnIdle /\ remote = "any"
    /\ trace = <<>> /\ failures = 0 /\ sent = FALSE
    /\ BatchIdle
    /\ TextsIdle /\ batch_size = 1
    /\ ValuesIdle /\ unit = NoUnit /\ FrameIdle
    /\ file_validator \in BOOLEAN
    /\ dataframe_validator \in BOOLEAN
    /\ field_validator \in BOOLEAN
    /\ require_header \in BOOLEAN
    /\ lists = <<<<>>, <<>>, <<>>, <<>>>>
    /\ _results = 1
    /\ validator_results = [file |-> 2, dataframe |-> 3, field |-> 4]
    /\ self_df = "unset" /\ pcVal = "idle" /\ file_path = <<>> /\ df_arg = "None"
    /\ calls = 0 /\ returned = <<>> /\ ran = <<>>

validate_file ==
    (\E file \in FilePool : VF_Call(file))
        \/ VF_File \/ VF_Read \/ VF_DataFrame \/ VF_Field

validate_dataframe ==
    (\E table \in TableArgs : VD_Call(table)) \/ VD_DataFrame \/ VD_Field

NextValidation == validate_file \/ validate_dataframe

SpecValidation == InitValidation /\ [][NextValidation]_vars

\* ------------------------------------------------- properties of the service
ResponseIdx == {k \in 1..Len(trace) : trace[k].ev = "response"}
RequestIdx == {k \in 1..Len(trace) : trace[k].ev = "request"}

\* a failed response that no backoff follows: the attempts are exhausted
ExhaustedIdx ==
    {k \in ResponseIdx :
        /\ trace[k].kind # "ok"
        /\ \/ k < Len(trace) /\ trace[k + 1].ev # "backoff"
           \/ k = Len(trace) /\ pcB # "sleep"}

RECURSIVE OkLines(_)
OkLines(t) ==
    IF t = <<>> THEN <<>>
    ELSE (IF Head(t).ev = "response" /\ Head(t).kind = "ok"
          THEN Head(t).lines ELSE <<>>) \o OkLines(Tail(t))

\* the batches whose request was answered by an accepted response
RECURSIVE OkBatches(_)
OkBatches(t) ==
    IF Len(t) < 2 THEN <<>>
    ELSE (IF t[1].ev = "request" /\ t[2].ev = "response" /\ t[2].kind = "ok"
          THEN t[1].batch ELSE <<>>) \o OkBatches(Tail(t))

\* C1: whenever translate_batch returns a list for a non-empty batch, the list
\* has exactly as many entries as the batch has texts, and it is the accepted
\* response; a response with another line count is never returned.
C1_AlignedReturn ==
    (pcB = "done" /\ tb_texts # <<>> /\ tb_ret.kind = "list")
        => /\ Len(tb_ret.val) = Len(tb_texts)
           /\ trace # <<>>
           /\ trace[Len(trace)] = RespEvent("ok", tb_ret.val)

C1_Witness ==
    /\ entry = "translate_batch"
    /\ pcB = "done" /\ tb_ret.kind = "list"
    /\ Len(tb_texts) = 2 /\ Len(tb_ret.val) = 2
    /\ \E k \in ResponseIdx : trace[k].kind = "misaligned"

\* C2: when every response is misaligned, translate_batch issues exactly
\* max_retries requests, all carrying the same batch, sleeps 2^k after the
\* k-th failed attempt (k from 0), does not sleep after the last attempt,
\* and then raises.
AllMisaligned == \A k \in ResponseIdx : trace[k].kind = "misaligned"

C2_RetrySchedule ==
    (tb_texts # <<>> /\ AllMisaligned) =>
        /\ \A k \in 1..Len(trace) :
              /\ (k % 3 = 1) => trace[k] = ReqEvent(tb_texts)
              /\ (k % 3 = 2) => trace[k] = RespEvent("misaligned", <<>>)
              /\ (k % 3 = 0) => trace[k] = BackoffEvent(Pow2(k \div 3 - 1))
        /\ Cardinality(RequestIdx) <= max_retries
        /\ Len(trace) <= 3 * max_retries - 1
        /\ (pcB = "done" /\ tb_ret.kind # "none") =>
              /\ Cardinality(RequestIdx) = max_retries
              /\ Len(trace) = 3 * max_retries - 1
              /\ IsRaise(tb_ret)

C2_Witness ==
    /\ entry = "translate_batch"
    /\ pcB = "done" /\ IsRaise(tb_ret)
    /\ max_retries = 3 /\ Len(tb_texts) = 2
    /\ AllMisaligned
    /\ Len(trace) = 8
    /\ trace[3] = BackoffEvent(1) /\ trace[6] = BackoffEvent(2)

\* C3: if a batch ultimately fails inside translate_texts, no request is
\* issued for any later batch and the returned list is the concatenation, in
\* order, of the translations of the batches that succeeded before it: a
\* strict prefix of the full result, without entries of the failed batch.
C3_PartialResult ==
    \A k \in ExhaustedIdx :
        /\ k = Len(trace)
        /\ pcT \in {"call", "done"}
        /\ (pcT = "done") =>
              /\ tt_ret = ReturnList(OkLines(trace))
              /\ OkBatches(trace) = SubSeq(tt_texts, 1, i)
              /\ Len(tt_ret.val) = i
              /\ i < Len(tt_texts)

C3_Witness ==
    /\ entry = "translate_texts"
    /\ pcT = "done"
    /\ ExhaustedIdx # {}
    /\ Len(tt_texts) = 3 /\ batch_size = 1 /\ i = 1
    /\ tt_ret.kind = "list" /\ Len(tt_ret.val) = 1

\* C4: when every batch succeeds, translate_texts returns a list of the same
\* length as its input whose entry j is the line the remote returned for
\* input text j, for every input length and every batch size >= 1.
C4_SameLengthAndOrder ==
    (pcT = "done" /\ batch_size >= 1 /\ ExhaustedIdx = {}) =>
        /\ tt_ret.kind = "list"
        /\ Len(tt_ret.val) = Len(tt_texts)
        /\ OkBatches(trace) = tt_texts
        /\ tt_ret.val = OkLines(trace)
        /\ \A k \in ResponseIdx :
              trace[k].kind = "ok" => Len(trace[k].lines) = Len(trace[k - 1].batch)

C4_Witness ==
    /\ entry = "translate_texts"
    /\ pcT = "done" /\ ExhaustedIdx = {}
    /\ Len(tt_texts) = 3 /\ batch_size = 2
    /\ tt_ret.kind = "list" /\ Len(tt_ret.val) = 3
    /\ tt_ret.val[1] # tt_ret.val[3]
    /\ \E k \in ResponseIdx : trace[k].kind # "ok"

\* ------------------------------------------- properties of translate_values
\* C5: every call site of translate_texts in translate_values detects a
\* returned list shorter than the list it sent and treats the value as
\* incompletely translated (an error is reported for that value).
C5_ShortListDetected ==
    \A r \in short :
        \E l \in log : l.unit = r.unit /\ l.vi = r.vi /\ l.line \in {202, 208}

\* position of the p-th entry of values in valid_values
ValidIndex(p) == Cardinality({q \in 1..p : IsValidValue(tv_values[q])})
FailedValues == {l.vi : l \in {e \in log : e.line = 208 /\ e.unit = unit}}

\* C10: translate_values never raises; if translating one value raises, the
\* returned list holds the original value at that position and the values
\* before and after it hold their own translations.
C10_FallbackKeepsOthers ==
    (pcV = "done") =>
        /\ tv_ret.kind = "list"
        /\ Len(tv_ret.val) = Len(tv_values)
        /\ (FailedValues # {}) =>
              \A p \in 1..Len(tv_values) :
                  IsValidValue(tv_values[p]) =>
                      tv_ret.val[p] =
                          IF ValidIndex(p) \in FailedValues
                          THEN tv_values[p]
                          ELSE translations[ValidIndex(p)]

\* ---------------------------------------- properties of translate_dataframe
IsNumber(v) == v.t \in {"int", "float"}
SameValue(a, b) == a = b \/ (IsNumber(a) /\ IsNumber(b) /\ a.n = b.n)

\* the target-language cells of the groups translate_dataframe works on
IsTargetCell(table, c) ==
    /\ IsCastTarget(table, c.col)
    /\ BaseOf(c.col) \notin exclude_columns
Eligible(table, c) ==
    /\ IsTargetCell(table, c)
    /\ isna(At(table, c.row, c.col))
    /\ notna(At(table, c.row, SourceColOf(table, c.col)))

\* the units whose translation ended in the fallback of lines 207-209
FailedUnits == {l.unit : l \in {e \in log : e.line = 208 /\ e.unit.row > 0}}

\* C6: if the translation of a unit fails, the job continues and the unit's
\* target cell keeps the value it had before the run (it stays empty), so
\* that a later run selects the unit again.
C6_FailedUnitStaysEmpty ==
    (run = 1 /\ pcD = "done") =>
        \A c \in FailedUnits :
            /\ td_ret = ReturnTable
            /\ At(df_translated, c.row, c.col) = At(df, c.row, c.col)
            /\ Eligible(df_translated, c)

\* C7: a second run on the table returned by a first run issues no request
\* for any target cell the first run populated and returns those cells
\* unchanged.
PopulatedByFirstRun ==
    {c \in AllCells : isna(At(first_in, c.row, c.col))
                        /\ notna(At(first_out, c.row, c.col))}

C7_SecondRunIdempotent ==
    (run = 2) =>
        \A c \in PopulatedByFirstRun :
            /\ c \notin requested
            /\ (pcD = "done") =>
                  /\ td_ret = ReturnTable
                  /\ At(df_translated, c.row, c.col) = At(first_out, c.row, c.col)

\* C8: translate_dataframe translates and writes a (row, target column) cell
\* exactly once if and only if the target cell is missing and the source cell
\* of the row is present in the input; no other cell is sent or written.
C8_ExactlyEligibleCells ==
    (run = 1 /\ pcD = "done") =>
        \A c \in AllCells :
            IF Eligible(df, c)
            THEN writes[c] = 1 /\ c \in called
            ELSE writes[c] = 0 /\ c \notin called /\ c \notin requested

\* C9: in the returned table every source-language column, every column
\* without a language tag and every target cell that was populated in the
\* input holds the same value as in the input.
C9_FrameOfReturnedTable ==
    (run = 1 /\ pcD = "done" /\ td_ret = ReturnTable) =>
        \A c \in AllCells :
            (\/ ~ HasLang(c.col)
             \/ LangOf(c.col) = SourceLang
             \/ notna(At(df, c.row, c.col)))
                => SameValue(At(df_translated, c.row, c.col), At(df, c.row, c.col))

\* ------------------------------------- further properties of the service
OksBefore(k) == Cardinality({j \in ResponseIdx : j < k /\ trace[j].kind = "ok"})
\* a request that is not the retry that follows a backoff
IsFirstAttempt(k) ==
    trace[k].ev = "request" /\ (k = 1 \/ trace[k - 1].ev # "backoff")

\* C14: at most one remote request is outstanding at any time (nothing but
\* its response follows a request); a request for a batch is issued only
\* after the previous batch succeeded or, as a retry, after the failed
\* attempt and its backoff; requests are issued in batch order.
C14_OneOutstandingRequest ==
    \A k \in RequestIdx :
        /\ (k < Len(trace)) => trace[k + 1].ev = "response"
        /\ (k = Len(trace)) => pcB = "await"
        /\ trace[k].batch = Slice(tt_texts, OksBefore(k) * batch_size, batch_size)
        /\ (k > 1) =>
              /\ k > 3
              /\ trace[k - 2].ev = "response"
              /\ trace[k - 3].ev = "request"
              /\ IF trace[k - 2].kind = "ok"
                 THEN trace[k - 1].ev = "ratelimit"
                 ELSE trace[k - 1].ev = "backoff" /\ trace[k - 3].batch = trace[k].batch

C14_Witness ==
    /\ entry = "translate_texts" /\ pcT = "done"
    /\ Cardinality(RequestIdx) >= 3
    /\ OksBefore(Len(trace) + 1) = 2
    /\ \E k \in ResponseIdx : trace[k].kind = "misaligned"

\* C15: a request that fails with a transport or provider error is retried
\* like a misaligned response: max_retries attempts in total, delays 1, 2,
\* 4, ..., and a failure once the attempts are exhausted, also when errors
\* and misalignments alternate.
AllFailed == \A k \in ResponseIdx : trace[k].kind \in {"misaligned", "error"}

C15_ErrorsRetriedAlike ==
    (tb_texts # <<>> /\ AllFailed) =>
        /\ \A k \in 1..Len(trace) :
              /\ (k % 3 = 1) => trace[k] = ReqEvent(tb_texts)
              /\ (k % 3 = 2) => trace[k].ev = "response"
              /\ (k % 3 = 0) => trace[k] = BackoffEvent(Pow2(k \div 3 - 1))
        /\ Cardinality(RequestIdx) <= max_retries
        /\ (pcB = "done" /\ tb_ret.kind # "none") =>
              /\ Cardinality(RequestIdx) = max_retries
              /\ Cardinality(ResponseIdx) = max_retries
              /\ trace[Len(trace)].ev = "response"
              /\ IsRaise(tb_ret)

C15_Witness ==
    /\ entry = "translate_batch"
    /\ pcB = "done" /\ IsRaise(tb_ret)
    /\ max_retries = 3 /\ Len(trace) = 8
    /\ trace[2].kind = "error" /\ trace[5].kind = "misaligned"
    /\ trace[8].kind = "error"
    /\ trace[3] = BackoffEvent(1) /\ trace[6] = BackoffEvent(2)

\* the batches of the first attempts among the first k events, concatenated
RECURSIVE Attempted(_)
Attempted(k) ==
    IF k = 0 THEN <<>>
    ELSE Attempted(k - 1) \o (IF IsFirstAttempt(k) THEN trace[k].batch ELSE <<>>)

\* C16: translate_texts sends the input as consecutive slices in input
\* order: every request carries at least one and at most batch_size texts,
\* no text is sent in two batches (a retry repeats the batch of its first
\* attempt), and the concatenation of the batches attempted so far is a
\* prefix of the input.
C16_ConsecutiveSlices ==
    LET attempted == Attempted(Len(trace))
    IN  /\ \A k \in RequestIdx :
              /\ Len(trace[k].batch) >= 1
              /\ Len(trace[k].batch) <= batch_size
              /\ ~ IsFirstAttempt(k) =>
                    k > 3 /\ trace[k - 3] = trace[k] /\ trace[k - 2].kind # "ok"
        /\ Len(attempted) <= Len(tt_texts)
        /\ attempted = SubSeq(tt_texts, 1, Len(attempted))

C16_Witness ==
    /\ entry = "translate_texts" /\ pcT = "done"
    /\ Len(tt_texts) = 3 /\ batch_size = 2
    /\ Cardinality({k \in RequestIdx : IsFirstAttempt(k)}) = 2
    /\ Attempted(Len(trace)) = tt_texts
    /\ tt_texts[1] # tt_texts[3]

\* C17: a delay of 1 time unit follows each successful batch that is followed
\* by another batch, before that batch's first request; no rate-limit delay
\* follows the last batch or a failed batch.
C17_RateLimitDelay ==
    \A k \in 1..Len(trace) :
        /\ (trace[k].ev = "ratelimit") =>
              /\ trace[k].d = RateLimitDelay
              /\ k > 1 /\ trace[k - 1].ev = "response" /\ trace[k - 1].kind = "ok"
              /\ OksBefore(k) * batch_size < Len(tt_texts)
        /\ (trace[k].ev = "response" /\ trace[k].kind = "ok") =>
              IF OksBefore(k + 1) * batch_size < Len(tt_texts)
              THEN IF k = Len(trace) THEN pcT \in {"call", "sleep"}
                   ELSE trace[k + 1].ev = "ratelimit"
              ELSE k = Len(trace)
        /\ (k > 1 /\ IsFirstAttempt(k)) => trace[k - 1].ev = "ratelimit"

C17_Witness ==
    /\ entry = "translate_texts" /\ pcT = "done"
    /\ Len(tt_texts) = 3 /\ batch_size = 1
    /\ Cardinality({k \in 1..Len(trace) : trace[k].ev = "ratelimit"}) = 2
    /\ trace[Len(trace)].ev = "response"

\* ------------------------------------------------ properties of set columns
\* C18: for a set column and one target language the elements of all
\* eligible cells are deduplicated by trimmed value before translation: each
\* distinct element value is sent to the translation client at most once.
\* (translate_values sends every valid value in its own translate_texts
\* call, so an element in flight must differ from all elements before it.)
C18_SetElementsSentOnce ==
    (pcD = "set_call" /\ pcV = "main" /\ pcB = "await") =>
        \A j \in 1..(vi - 1) : valid_values[j] # valid_values[vi]

\* the set cells of the current target column that have been written
WrittenSetCells ==
    IF pcD = "set_row"
    THEN {Cell(rows_to_translate[k], lang_columns[li].col) : k \in 1..(ri - 1)}
    ELSE {}
SetParts(v) == Split(PyStr(v), SetSeparator)

\* C19: for every eligible set cell the written target cell has as many
\* elements as the source cell, its i-th element is the translation returned
\* for the trimmed i-th source element, joined with the set separator; when
\* every element comes back unchanged and has no surrounding whitespace the
\* target equals the source. Every eligible set cell is written.
C19_SetRoundTrip ==
    /\ \A c \in WrittenSetCells :
          LET source == At(df, c.row, SourceColOf(df, c.col))
              target == At(df_translated, c.row, c.col)
              parts == SetParts(source)
              tparts == SetParts(target)
          IN  /\ target.t = "str"
              /\ Len(tparts) = Len(parts)
              /\ \A k \in 1..Len(parts) :
                    \E e \in 1..Len(all_elements) :
                        /\ all_elements[e] = Str(Strip(parts[k]))
                        /\ tparts[k] = PyStr(set_translations[e])
              /\ (\A k \in 1..Len(parts) : tparts[k] = parts[k])
                    => target = Str(PyStr(source))
    /\ (pcD = "done" /\ td_ret # ReturnTable /\ CastsOk(df)) => set_columns = {}

\* --------------------------------------------- properties of column groups
\* C20: a column group without a column for the source language is skipped:
\* no request is issued for it, none of its cells is written (the table keeps
\* its column as it was), a warning is reported, and the job goes on to
\* process the remaining groups.
C20_GroupWithoutSourceSkipped ==
    /\ (pcD \notin {"idle", "start"}) =>
          /\ Col(df_translated, "h.fr") = Col(df, "h.fr")
          /\ \A c \in OtherGroupCells :
                c \notin requested /\ c \notin called /\ writes[c] = 0
          /\ unit.col # "h.fr"
    /\ (pcD = "done" /\ CastsOk(df)) =>
          /\ td_ret = ReturnTable
          /\ DFLog(282, Cell(0, "h")) \in log
          /\ \A c \in AllCells : Eligible(df, c) => writes[c] = 1 /\ c \in called

C20_Witness ==
    /\ pcD = "done" /\ td_ret = ReturnTable
    /\ base_columns = <<"h", "g">>
    /\ isna(At(df, 1, "h.fr"))
    /\ DFLog(282, Cell(0, "h")) \in log
    /\ writes[Cell(1, "g.fr")] = 1
    /\ Cell(1, "g.fr") \in requested

\* ------------------------------------------------ properties of process_file
\* C11: for every input table and every behaviour of the remote service,
\* process_file terminates having written the output file.
C11_OutputWritten ==
    (pcP \in {"done", "raised"}) =>
        /\ pcP = "done"
        /\ saved # <<>>
        /\ saved[Len(saved)].final

\* the cells that are empty in the input and filled in a table
Translated(table) ==
    {c \in AllCells : isna(At(df, c.row, c.col)) /\ notna(At(table, c.row, c.col))}
Checkpoints == SelectSeq(saved, LAMBDA x : ~ x.final)
RECURSIVE SumWrites(_)
SumWrites(S) ==
    IF S = {} THEN 0
    ELSE LET c == CHOOSE x \in S : TRUE IN writes[c] + SumWrites(S \ {c})
UnitsCompleted == SumWrites(AllCells)

\* C12: with save_interval = N > 0 the table is persisted exactly after the
\* N-th, 2N-th, ... completed unit and at no other moment before the final
\* save; with save_interval 0 or None the only persist is the final one.
C12_CheckpointSchedule ==
    (pcP \in {"call", "done", "raised"}) =>
        /\ \A k \in 1..(Len(saved) - 1) : ~ saved[k].final
        /\ (save_interval = 0) => Checkpoints = <<>>
        /\ (save_interval > 0) =>
              /\ Len(Checkpoints) = UnitsCompleted \div save_interval
              /\ \A k \in 1..Len(Checkpoints) :
                    Cardinality(Translated(Checkpoints[k].table)) = k * save_interval

C12_Witness ==
    /\ pcP = "done" /\ save_interval = 2
    /\ Len(saved) = 2 /\ UnitsCompleted = 2
    /\ ~ saved[1].final /\ saved[2].final

\* C13: the snapshots of one job are monotone: each checkpoint holds the
\* translated cells of the previous one with the same values, the final
\* output holds those of every checkpoint, and a snapshot is the table as it
\* stands between two cell writes.
Holds(later, earlier) ==
    \A c \in Translated(earlier) :
        At(later, c.row, c.col) = At(earlier, c.row, c.col)

C13_MonotoneSnapshots ==
    (pcP \in {"call", "done", "raised"}) =>
        /\ \A k \in 1..(Len(saved) - 1) : Holds(saved[k + 1].table, saved[k].table)
        /\ \A k \in 1..Len(saved) :
              /\ pcD \notin {"idle", "start"} => Holds(df_translated, saved[k].table)
              /\ ~ saved[k].final =>
                    Cardinality(Translated(saved[k].table)) = saved[k].units

C13_Witness ==
    /\ pcP = "done" /\ Len(saved) = 3
    /\ Translated(saved[1].table) # Translated(saved[2].table)
    /\ Translated(saved[1].table) # {}

\* -------------------------------------------- properties of excluded groups
\* C21: for every base field listed in exclude_columns, translate_dataframe
\* issues no request and leaves every column of that group exactly as in the
\* input (values and column type), and returns the table.
C21_ExcludedGroupUntouched ==
    \A c \in AllCells :
        (BaseOf(c.col) \in exclude_columns /\ HasLang(c.col)) =>
            /\ c \notin requested /\ c \notin called /\ writes[c] = 0
            /\ (run = 1 /\ pcD = "done") =>
                  /\ td_ret = ReturnTable
                  /\ Col(df_translated, c.col) = Col(df, c.col)

\* ------------------------------------------- properties of the numeric cast
\* the regular-field cells of the current target column written so far
WrittenRowCells ==
    IF pcD = "row"
    THEN {Cell(rows_to_translate[k], lang_columns[li].col) : k \in 1..(ri - 1)}
    ELSE {}
NumericSource(table) == is_numeric_dtype(Col(table, "g.en").dtype)

\* C22: when the source column is numeric and the translated string cannot be
\* cast to the source type, the target cell is written with the translated
\* text, a warning is reported, and the job continues with the next unit;
\* when the cast succeeds the cell holds the cast value.
C22_NumericCastFallback ==
    (run = 1 /\ NumericSource(df)) =>
        /\ (pcD = "row" /\ ri > 1) =>
              LET c == Cell(rows_to_translate[ri - 1], lang_columns[li].col)
                  dtype == Col(df, "g.en").dtype
                  text == tv_ret.val[1]
                  cell == At(df_translated, c.row, c.col)
              IN  /\ td_ret = NoTable
                  /\ IF CastOk(dtype, text)
                     THEN /\ IsNumber(cell)
                          /\ SameValue(cell, Cast(dtype, text))
                          /\ DFLog(352, c) \notin log
                     ELSE /\ cell = text
                          /\ DFLog(352, c) \in log
        /\ \A c \in WrittenRowCells :
              (At(df_translated, c.row, c.col).t = "str") <=> (DFLog(352, c) \in log)
        /\ (pcD = "done" /\ CastsOk(df) /\ set_columns = {}) => td_ret = ReturnTable

C22_Witness ==
    /\ run = 1 /\ pcD = "row" /\ ri = 2 /\ Len(rows_to_translate) = 2
    /\ Col(df, "g.en").dtype = "float64"
    /\ ~ CastOk("float64", tv_ret.val[1])
    /\ At(df_translated, rows_to_translate[1], "g.fr") = Str(<<"x">>)
    /\ DFLog(352, Cell(rows_to_translate[1], "g.fr")) \in log

\* ------------------------------------------ properties of the logged counts
\* the units for which the remote returned a translation that was used
RemoteTranslated == {c \in AllCells : c \in requested /\ c \notin FailedUnits}

\* C23: at the end of translate_dataframe the number reported as translations
\* performed (line 363) equals the number of units the remote actually
\* translated; a unit whose translation failed is never counted as translated.
C23_CountsSeparateFailures ==
    (run = 1 /\ pcD = "done" /\ td_ret = ReturnTable /\ set_columns = {}) =>
        translation_count = Cardinality(RemoteTranslated)

\* ------------------------------------------- properties of the configuration
Unusable(v) == v = PyNone \/ v.s = <<>>
BadServiceSetting ==
    \/ ~ env.dotenv
    \/ Unusable(env.OPENAI_API_KEY) \/ Unusable(env.OPENAI_MODEL)
    \/ Unusable(env.MAX_TOKENS) \/ ~ PyIntOk(env.MAX_TOKENS.s)
    \/ Unusable(env.TEMPERATURE) \/ ~ PyFloatOk(env.TEMPERATURE.s)
    \/ Unusable(env.BATCH_SIZE) \/ ~ PyIntOk(env.BATCH_SIZE.s)
BadEngineSetting ==
    \/ Unusable(env.SET_SEPARATOR) \/ Unusable(env.LANGUAGE_SEPARATOR)
    \/ Unusable(env.FIELD_LANGUAGE_SEPARATOR) \/ env.OUTPUT_SUFFIX = PyNone

\* C24: if a required setting is missing or invalid, constructing the service
\* or the engine fails, no remote request is issued and no file is read or
\* written.
C24_BadSettingFailsStartup ==
    /\ BadServiceSetting => pcS # "constructed"
    /\ (BadServiceSetting \/ BadEngineSetting) =>
          /\ pcE # "constructed"
          /\ ~ sent /\ trace = <<>>
          /\ pcP = "idle" /\ saved = <<>>

\* ----------------------------------------- properties of should_translate
IsBlank(q) == \A k \in 1..Len(q) : IsSpace(q[k])
IsOneToken(q) == Len(q) = 1 /\ IsPlaceholder(q[1])

\* C25: the eligibility check returns false exactly for non-string input,
\* blank or whitespace-only strings and strings that are one placeholder
\* token, and true for every other string, including one that mixes ordinary
\* words with placeholder tokens.
C25_ShouldTranslateExact ==
    (pcF = "done") =>
        result = (arg.t = "str" /\ ~ IsBlank(arg.s) /\ ~ IsOneToken(arg.s))

\* ------------------------------------------ properties of protected JSON
RECURSIVE SameShape(_, _)
SameShape(a, b) ==
    /\ a.t = b.t
    /\ CASE a.t = "dict" ->
              /\ Len(a.items) = Len(b.items)
              /\ \A k \in 1..Len(a.items) :
                    k <= Len(b.items) => SameShape(a.items[k].v, b.items[k].v)
         [] a.t = "list" ->
              /\ Len(a.items) = Len(b.items)
              /\ \A k \in 1..Len(a.items) :
                    k <= Len(b.items) => SameShape(a.items[k], b.items[k])
         [] a.t = "num" -> a = b
         [] OTHER -> TRUE

\* C26: after the string leaves of a protected JSON span are translated, the
\* re-serialised object has the same nesting shape as the original: the same
\* number of keys in every object, the same length of every list, and every
\* non-string value unchanged at its position, whatever the remote returned.
C26_JsonShapePreserved ==
    (pcF = "done") =>
        /\ SameShape(arg.json_data, result.translated_json)
        /\ result.translated_json_str = Dumps(result.translated_json)

\* the string keys and string values of a JSON value, in the order of a walk
RECURSIVE Strings(_)
RECURSIVE StringsOfItems(_, _)
Strings(node) ==
    CASE node.t = "str" -> <<node.s>>
      [] node.t = "dict" -> StringsOfItems(node.items, TRUE)
      [] node.t = "list" -> StringsOfItems(node.items, FALSE)
      [] OTHER -> <<>>
StringsOfItems(items, isDict) ==
    IF items = <<>> THEN <<>>
    ELSE (IF isDict THEN <<Head(items).k>> \o Strings(Head(items).v)
          ELSE Strings(Head(items)))
         \o StringsOfItems(Tail(items), isDict)

\* a string the remote has to translate: not empty, not a placeholder token
IsLeaf(q) == q # <<>> /\ ~ IsOneToken(q)

\* C27: in a protected JSON span every string key or value that is a
\* placeholder token or is empty is left verbatim, and every other string key
\* and value is sent and replaced by the translation the remote returned for
\* it (the remote returned one line for every string sent).
C27_JsonLeavesTranslated ==
    (pcF = "done" /\ Len(arg.translated_strings) = Len(result.to_translate)) =>
        LET before == Strings(arg.json_data)
            after == Strings(result.translated_json)
            ordinal(k) == Cardinality({j \in 1..k : IsLeaf(before[j])})
        IN  /\ result.to_translate = SelectSeq(before, IsLeaf)
            /\ Len(after) = Len(before)
            /\ \A k \in 1..Len(before) :
                  k <= Len(after) =>
                      after[k] = IF IsLeaf(before[k])
                                 THEN arg.translated_strings[ordinal(k)]
                                 ELSE before[k]

\* the keys, and the string values, of a JSON value, in the order of a walk
RECURSIVE KeysOf(_)
RECURSIVE KeysOfItems(_, _)
KeysOf(node) ==
    IF node.t \in {"dict", "list"} THEN KeysOfItems(node.items, node.t = "dict")
    ELSE <<>>
KeysOfItems(items, isDict) ==
    IF items = <<>> THEN <<>>
    ELSE (IF isDict THEN <<Head(items).k>> \o KeysOf(Head(items).v)
          ELSE KeysOf(Head(items)))
         \o KeysOfItems(Tail(items), isDict)
RECURSIVE ValuesOf(_)
RECURSIVE ValuesOfItems(_, _)
ValuesOf(node) ==
    CASE node.t = "str" -> <<node.s>>
      [] node.t \in {"dict", "list"} -> ValuesOfItems(node.items, node.t = "dict")
      [] OTHER -> <<>>
ValuesOfItems(items, isDict) ==
    IF items = <<>> THEN <<>>
    ELSE ValuesOf(IF isDict THEN Head(items).v ELSE Head(items))
         \o ValuesOfItems(Tail(items), isDict)

\* C30: the JSON configuration of a column decides whether keys and values
\* are translated: with key translation disabled every key of the column's
\* JSON cells is left unchanged, with value translation disabled every string
\* value is left unchanged.
C30_JsonConfigRespected ==
    (pcF = "done") =>
        /\ ~ arg.keys => KeysOf(result.translated_json) = KeysOf(arg.json_data)
        /\ ~ arg.values => ValuesOf(result.translated_json) = ValuesOf(arg.json_data)

\* ------------------------------------------- properties of the round trip
\* a string that contains a URL, an HTML tag and a {{token}} marker
HasProtectedSpans(v) ==
    v.t = "str" /\ \A c \in {"U", "T", "M"} : \E k \in 1..Len(v.s) : v.s[k] = c

\* C28: protecting a string and restoring the protected form with the map of
\* that protection yields the original string, for strings that contain a
\* URL, an HTML tag and a {{token}} marker; with an identity translator
\* translate_values returns each such value unchanged.
C28_RoundTripIdentity ==
    /\ (pcV = "main" /\ HasProtectedSpans(valid_values[vi])) =>
          postprocess(preprocessed_text, extracted) = valid_values[vi].s
    /\ (pcV = "done") =>
          \A p \in 1..Len(tv_values) :
              HasProtectedSpans(tv_values[p]) => tv_ret.val[p] = tv_values[p]

\* --------------------------------------------- properties of the call order
\* the steps made for the value at index v
StepsOf(v, op) == {k \in 1..Len(steps) : steps[k].vi = v /\ steps[k].op = op}

\* the JSON placeholders of a value whose content has strings to translate
LeafRequests(v) ==
    LET map == preprocess(valid_values[v].s).map
    IN  {k \in 1..Len(map) :
            /\ IsJsonPlaceholder(map[k].ph)
            /\ LoadsOk(map[k].content)
            /\ collect_json_strings(Loads(map[k].content)) # <<>>}

LastAttemptFailed(kind) ==
    /\ pcB = "done"
    /\ trace # <<>>
    /\ trace[Len(trace)] = RespEvent(kind, <<>>)

\* C31: a batch that is still misaligned on the last attempt makes
\* translate_batch raise ValueError; a request error that persists to the
\* last attempt makes it raise a generic Exception.
C31_ErrorKinds ==
    /\ LastAttemptFailed("misaligned") => tb_ret = Raise("ValueError")
    /\ LastAttemptFailed("error") => tb_ret = Raise("Exception")

\* ------------------------------------------ properties of the line count
HasLineBreak(text) == \E k \in 1..Len(text) : text[k] = NL
PromptLines == Split(_create_user_prompt(tb_texts), NL)
Events(kind) ==
    {k \in 1..Len(trace) : trace[k].ev = "response" /\ trace[k].kind = kind}

\* every accepted response has one line per text unit of the batch
AcceptedByUnits ==
    \A k \in Events("ok") : Len(trace[k].lines) = Len(tb_texts)

\* the echoing remote answers with one line per prompt line
EchoEnded == remote = "identity" /\ pcB = "done" /\ tb_texts # <<>>

AllAttemptsRejected ==
    /\ tb_ret = Raise("Exception")
    /\ Events("ok") = {}
    /\ Cardinality(Events("misaligned")) = max_retries

BlankResponses == SeqsUpTo({SP, NL}, RespLen)
EmptyLine == <<>>

\* C36: an empty or whitespace-only response is parsed as exactly one empty
\* line; for a batch of one unit it passes the alignment check on the first
\* attempt and the empty string is returned as the translation, with no retry.
C36_BlankResponseAccepted ==
    /\ \A r \in BlankResponses :
          /\ r \in Responses(_create_user_prompt(tb_texts))
          /\ _process_response(r) = <<EmptyLine>>
    /\ (Len(tb_texts) = 1 /\ Len(trace) >= 2
            /\ trace[2] = RespEvent("ok", <<EmptyLine>>)) =>
          /\ pcB = "done"
          /\ tb_ret = ReturnList(<<EmptyLine>>)
          /\ attempt = 0
          /\ Len(trace) = 2

C36_Witness ==
    /\ pcB = "done"
    /\ tb_texts = <<<<"a">>>>
    /\ max_retries = 3
    /\ attempt = 0
    /\ trace = <<ReqEvent(tb_texts), RespEvent("ok", <<EmptyLine>>)>>
    /\ tb_ret = ReturnList(<<EmptyLine>>)

\* ----------------------------------------- properties of the batch size
\* C37: for every batch size the constructor accepts (any integer) and a
\* remote whose responses are all aligned, translate_texts on a non-empty
\* list ends by returning a list as long as its input.
C37_AnyBatchSizeSameLength ==
    (pcT = "done" /\ tt_texts # <<>> /\ failures = 0) =>
        /\ tt_ret.kind = "list"
        /\ Len(tt_ret.val) = Len(tt_texts)

\* -------------------------------------- properties of the returned list
\* C34: translate_values returns a list of the same length and order as its
\* input; a missing or blank value is returned unchanged and causes no
\* request; every other value, also one with leading or trailing whitespace,
\* is replaced by the result of translating that value.
C34_PositionwiseResult ==
    /\ (pcV # "start" /\ valid_values = <<>>) => ~ sent
    /\ Cardinality({k \in 1..Len(steps) : steps[k].op = "main"}) <= Len(valid_values)
    /\ (pcV = "done") =>
          /\ tv_ret.kind = "list"
          /\ Len(tv_ret.val) = Len(tv_values)
          /\ \A p \in 1..Len(tv_values) :
                tv_ret.val[p] =
                    IF IsValidValue(tv_values[p])
                    THEN translations[ValidIndex(p)]
                    ELSE tv_values[p]

\* --------------------------------------- properties of the input table
Translating == pcD \in {"row", "row_call", "set_call", "set_row"}

\* the rows chosen for the current target column, recomputed from the input
EligibleInInput ==
    RowsWhere(df, lang_columns[li].col, ColOfLang(lang_columns, SourceLang), TRUE)

\* the working table is the start copy except for the cells written so far
CopyPlusWrites ==
    \A c \in AllCells :
        writes[c] = 0 =>
            At(df_translated, c.row, c.col) = At(CastTargets(df), c.row, c.col)

InputUntouched ==
    /\ Translating => rows_to_translate = EligibleInInput
    /\ (pcD \in {"group", "lang"} \cup {"row", "row_call", "set_call", "set_row"}
            \/ (pcD = "done" /\ td_ret = ReturnTable)) => CopyPlusWrites

CallbackGetsCopy ==
    /\ df' = df
    /\ (saved' # saved) =>
          /\ Len(saved') = Len(saved) + 1
          /\ saved'[Len(saved')].table = df_translated'

\* C38: translate_dataframe never modifies the table passed to it;
\* eligibility is decided from the input table, every write goes to the copy
\* made at the start, and that copy is what the checkpoint callback receives
\* and what is returned.
C38_InputNeverModified == [] InputUntouched /\ [][CallbackGetsCopy]_vars

C38_Witness ==
    /\ pcP = "done"
    /\ Len(saved) >= 2
    /\ saved[Len(saved)].table = df_translated
    /\ df_translated # df
    /\ \E c \in AllCells : writes[c] > 0

\* ---------------------------------------- properties of the skip count
\* target cells of processed groups populated in the input, with their source
AlreadyTranslated ==
    {c \in AllCells :
        /\ IsTargetCell(df, c)
        /\ BaseOf(c.col) \notin exclude_columns
        /\ notna(At(df, c.row, c.col))
        /\ notna(At(df, c.row, SourceColOf(df, c.col)))}

\* C39: the number reported as existing translations skipped equals the
\* number of (row, target column) pairs of the processed groups whose target
\* cell and source cell were both populated in the input.
C39_SkippedCountsExisting ==
    (run = 1 /\ pcD = "done" /\ td_ret = ReturnTable) =>
        skipped_count = Cardinality(AlreadyTranslated)

\* ------------------------------------------- properties of the validation
StepNames == <<"validate_file", "file", "read", "dataframe", "field">>
StepRank(name) == CHOOSE k \in 1..Len(StepNames) : StepNames[k] = name
RanSteps(name) == {k \in 1..Len(ran) : ran[k].step = name}
IsFileCall == ran # <<>> /\ ran[1].step = "validate_file"

\* C32: validate_file runs the provided validators in the order file,
\* dataframe, field; when the file validator reports an ERROR the CSV is not
\* read, the other validators are not run, and the returned results are
\* exactly the file validator's results.
C32_FileErrorStopsPipeline ==
    IsFileCall =>
        /\ \A j, k \in 1..Len(ran) :
              j < k => StepRank(ran[j].step) < StepRank(ran[k].step)
        /\ \A name \in {"file", "dataframe", "field"} :
              RanSteps(name) # {} =>
                  CASE name = "file" -> file_validator
                    [] name = "dataframe" -> dataframe_validator
                    [] name = "field" -> field_validator
        /\ (Len(ran) >= 2 /\ ran[2].step = "file" /\ HasError(ran[2].results)) =>
              /\ Len(ran) = 2
              /\ pcVal = "idle"
              /\ returned[Len(returned)] =
                    [id |-> _results, contents |-> ran[2].results]
              /\ lists[_results] = lists[validator_results.file]

C32_Witness ==
    /\ calls = 1 /\ pcVal = "idle" /\ IsFileCall
    /\ file_validator /\ dataframe_validator /\ field_validator
    /\ file_path = CsvFile(<<<<<<"a">>, <<"b">>>>, <<<<"a">>>>>>, "df_ok")
    /\ ran = <<[step |-> "validate_file", results |-> <<>>],
               [step |-> "file",
                results |-> <<Res("ERROR", "field_count", 2)>>]>>
    /\ self_df = "unset"
    /\ Len(returned) = 1

\* ----------------------------------------- properties of the header check
HeaderChecks == {"no_headers", "empty_header", "duplicate_header", "header_space"}
\* the result list of the file validator in the current call
FileResults == ran[2].results
FileValidatorRan == IsFileCall /\ Len(ran) >= 2 /\ ran[2].step = "file"
RaggedRows(rows) == {k \in 2..Len(rows) : Len(rows[k]) # Len(rows[1])}

\* C33: the header row is checked only when require_header is true; with
\* require_header = False a first row with empty, duplicate or
\* space-containing fields gives no header-related ERROR and the remaining
\* rows are still checked for a consistent field count.
C33_HeaderCheckOptional ==
    (FileValidatorRan /\ ~ require_header /\ file_path.exists
        /\ file_path.rows # <<>>) =>
        /\ \A k \in 1..Len(FileResults) : FileResults[k].check \notin HeaderChecks
        /\ (RaggedRows(file_path.rows) # {}) =
              (\E k \in 1..Len(FileResults) : FileResults[k].check = "field_count")

\* --------------------------------------- properties of the engine results
RECURSIVE Concat(_)
Concat(parts) == IF parts = <<>> THEN <<>> ELSE parts[1].results \o Concat(Tail(parts))

\* C40: after any sequence of validate_file and validate_dataframe calls the
\* engine's results are exactly the results produced by the most recent call;
\* results of earlier calls are discarded and the lists that earlier calls
\* returned are not changed by later calls.
C40_ResultsOfLastCall ==
    (pcVal # "off" /\ calls > 0) =>
        /\ lists[_results] = Concat(ran)
        /\ \A k \in 1..Len(returned) :
              lists[returned[k].id] = returned[k].contents
        /\ \A j, k \in 1..Len(returned) : j # k => returned[j].id # returned[k].id

C40_Witness ==
    /\ pcVal = "idle" /\ calls = 2
    /\ Len(returned) = 2
    /\ returned[1].contents # <<>>
    /\ returned[2].contents # returned[1].contents
    /\ returned[2].id = _results
    /\ lists[returned[1].id] = returned[1].contents

====
